---- MODULE Spec2Model ----
(***************************************************************************)
(* Model of the unified website analysis workflow                          *)
(* (src/src/workflows/unified_workflow.py), of the extractors under        *)
(* src/src/extractors/ and of the HTTP endpoints of src/api.py.            *)
(*                                                                         *)
(* Six specifications share the variables:                                 *)
(*   Spec      analyze() and one run of unified_workflow;                  *)
(*   PerfSpec  one call of analyze_performance();                          *)
(*   HtmlSpec  one HtmlContentExtractor and its extract() calls;           *)
(*   UiuxSpec  one UIUXExtractor and its extract() call;                   *)
(*   ApiSpec   analysis_store, the endpoints and run_analysis_task;        *)
(*   BrowserSpec  the calls that launch a headless browser, by statement.  *)
(* Each leaves the others' variables at their initial values.              *)
(***************************************************************************)
EXTENDS Integers, Sequences, FiniteSets, TLC

VARIABLES
    \* ---- analyze() / unified_workflow ----
    wfState,                \* "idle" | "running" | "done" | "aborted"
    input,                  \* raw input handed to analyze()
    mode,                   \* analysis mode announced by analyze()
    stepIdx,                \* position in WorkflowSteps
    phase,                  \* position inside a Condition: "cond" | "extract" | "analyse"
    previous_step_content,  \* StepInput.previous_step_content
    classifierCall,         \* "none" | "ok" | "raised"
    classification,         \* content returned by classify_input_step
    branch,                 \* branch -> "pending" | "running" | "ran" | "skipped"
    extractorCall,          \* branch -> "none" | "ok" | "raised"
    stepOut,                \* branch -> content returned by its extraction step
    finished,               \* branches in the order they reached a terminal state
    handed,                 \* extraction outputs in the order the run collected them
    summaryStarted,         \* the summary step has been started
    \* ---- analyze_performance ----
    ppc,                    \* "idle" | "stage1" | "stage2" | "stage3" | "done"
    use_fallback,           \* argument of analyze_performance
    clock,                  \* wall clock read by time.strftime
    stageOutcome,           \* stage -> "none" | outcome of the stage's external call
    stageOrder,             \* stages in the order they were executed
    categories,             \* category -> score in the remote audit's response
    pagespeed_data,         \* PerformanceAnalyzer.extract() result
    headers_data,           \* HeaderAnalyzer.extract() result
    local_data,             \* LocalPerformanceAnalyzer.extract() result
    combined_features,      \* the dictionary being merged / returned
    perfRaised,             \* an exception escaped analyze_performance
    \* ---- HtmlContentExtractor ----
    hpc,                    \* position of the extractor: "new", a method of extract(), "returned"
    page,                   \* constructor arguments and the markup behind them
    fetch,                  \* "none" | "ok" | "request_exception": what _fetch_html met
    soup,                   \* self.soup: the parsed markup, or NoSoup
    features,               \* self.features (SEOFeatures)
    extractCalls,           \* number of extract() calls made on the extractor
    extractResult,          \* "none" | "error" | "features": what extract() returned last
    htmlRaised,             \* an exception escaped __init__ or extract()
    firstReturn,            \* asdict(self.features) as the first extract() returned it
    \* ---- UIUXExtractor ----
    uxpc,                   \* "new" | "constructed" | "captured" | "returned" | "raised"
    uxArgs,                 \* url, screenshot, screenshots handed to the constructor
    uxMode,                 \* self.mode
    fs,                     \* path -> "valid" | "missing" | "unreadable", as the loads met it
    uxFeatures,             \* the features dictionary extract() builds
    uxRaised,               \* "none", or the exception that left __init__ / extract()
    \* ---- api.py ----
    analysis_store,         \* analysis id -> record, or NoRecord when the id is not stored
    task,                   \* analysis id -> position of its run_analysis_task
    caught,                 \* analysis id -> exception the task's except clause holds
    issued,                 \* number of analysis ids generated so far
    apiClock,               \* number of datetime.now() calls so far
    lastResponse,           \* the latest response sent by an endpoint
    \* ---- headless browsers ----
    bcall,                  \* the call running or last run: "none" | "capture" | "audit" | "local"
    bpc,                    \* its position: "idle", a statement, "returned"
    ncalls,                 \* number of browser-launching calls started
    browsers,               \* the browsers launched so far: the call that launched each, open or not
    vp,                     \* index of the viewport the capture loop is at
    vpOutcome,              \* viewport index -> "none" | "ok" | "error"
    attempted,              \* viewports the capture loop has started, in order
    captured,               \* the screenshots dict of the capture: its viewport names
    bresult                 \* "none" | "ok" | "failed": how the call returned

wfVars == <<wfState, input, mode, stepIdx, phase, previous_step_content,
            classifierCall, classification, branch, extractorCall, stepOut,
            finished, handed, summaryStarted>>

perfVars == <<ppc, use_fallback, clock, stageOutcome, stageOrder, categories, pagespeed_data,
              headers_data, local_data, combined_features, perfRaised>>

htmlVars == <<hpc, page, fetch, soup, features, extractCalls, extractResult, htmlRaised,
              firstReturn>>

uxVars == <<uxpc, uxArgs, uxMode, fs, uxFeatures, uxRaised>>

apiVars == <<analysis_store, task, caught, issued, apiClock, lastResponse>>

brVars == <<bcall, bpc, ncalls, browsers, vp, vpOutcome, attempted, captured, bresult>>

\* what the operations of one component leave alone: the other components
outsideWorkflow    == <<perfVars, htmlVars, uxVars, apiVars, brVars>>
outsidePerformance == <<wfVars, htmlVars, uxVars, apiVars, brVars>>
outsideHtml        == <<wfVars, perfVars, uxVars, apiVars, brVars>>
outsideUiux        == <<wfVars, perfVars, htmlVars, apiVars, brVars>>
outsideApi         == <<wfVars, perfVars, htmlVars, uxVars, brVars>>
outsideBrowser     == <<wfVars, perfVars, htmlVars, uxVars, apiVars>>

vars == <<wfState, input, mode, stepIdx, phase, previous_step_content,
          classifierCall, classification, branch, extractorCall, stepOut,
          finished, handed, summaryStarted,
          ppc, use_fallback, clock, stageOutcome, stageOrder, categories, pagespeed_data,
          headers_data, local_data, combined_features, perfRaised,
          hpc, page, fetch, soup, features, extractCalls, extractResult, htmlRaised,
          firstReturn,
          uxpc, uxArgs, uxMode, fs, uxFeatures, uxRaised,
          analysis_store, task, caught, issued, apiClock, lastResponse,
          bcall, bpc, ncalls, browsers, vp, vpOutcome, attempted, captured, bresult>>

(***************************************************************************)
(* Bounds                                                                  *)
(***************************************************************************)
\* longest tail appended to a string prefix when inputs are enumerated
MaxTail == 1
\* largest value of the wall clock
MaxClock == 3

(***************************************************************************)
(* Python values of the raw input.  A string is a sequence of characters.  *)
(***************************************************************************)
PyStr(s)    == [ty |-> "str",    s |-> s]
PyNone      == [ty |-> "none",   s |-> <<>>]
PyInt       == [ty |-> "int",    s |-> <<>>]   \* a non-zero integer
PyDict      == [ty |-> "dict",   s |-> <<>>]   \* a non-empty mapping viewport -> path
PyEmptyDict == [ty |-> "nodict", s |-> <<>>]   \* the empty mapping {}
Absent      == [ty |-> "absent", s |-> <<>>]   \* key not present in the dict

\* Python truthiness (if x:)
Truthy(v) ==
    \/ v.ty = "str" /\ Len(v.s) > 0
    \/ v.ty \in {"int", "dict"}

Http  == <<"h", "t", "t", "p", ":", "/", "/">>
Https == <<"h", "t", "t", "p", "s", ":", "/", "/">>

\* str.startswith
StartsWith(s, p) == Len(s) >= Len(p) /\ SubSeq(s, 1, Len(p)) = p

Prefixes == {<<>>, Http, Https, <<"h", "t", "t", "p">>, <<"<", "p", ">">>}
Tails    == UNION {[1..n -> {"a"}] : n \in 0..MaxTail}
Strs     == {p \o t : p \in Prefixes, t \in Tails}

NoDict == [url |-> Absent, html |-> Absent, screenshot |-> Absent, screenshots |-> Absent]

StrInput(s)  == [ty |-> "str",   s |-> s,    d |-> NoDict]
DictInput(d) == [ty |-> "dict",  s |-> <<>>, d |-> d]
OtherInput   == [ty |-> "other", s |-> <<>>, d |-> NoDict]
NoInput      == [ty |-> "unset", s |-> <<>>, d |-> NoDict]

UrlVals         == {Absent, PyNone, PyInt} \cup {PyStr(s) : s \in Strs}
HtmlVals        == {Absent, PyStr(<<"<", "p", ">">>)}
ScreenshotVals  == {Absent, PyNone, PyStr(<<"a">>)}
ScreenshotsVals == {Absent, PyEmptyDict, PyDict, PyStr(<<"a">>)}

Dicts == [url : UrlVals, html : HtmlVals,
          screenshot : ScreenshotVals, screenshots : ScreenshotsVals]

Inputs == {StrInput(s) : s \in Strs} \cup {DictInput(d) : d \in Dicts} \cup {OtherInput}

\* dict.get(key): None when the key is absent
Get(d, k) == IF d[k].ty = "absent" THEN PyNone ELSE d[k]
\* key in dict
HasKey(d, k) == d[k].ty # "absent"

(***************************************************************************)
(* Step contents                                                           *)
(***************************************************************************)
Content(kind, tag, text) == [kind |-> kind, tag |-> tag, text |-> text]
NoOutput == Content("none", "", "")

Branches == {"seo", "perf", "uiux"}

\* StepInput as the functions of the workflow read it
StepInput == [input |-> input, previous_step_content |-> previous_step_content]

(***************************************************************************)
(* Structural predicates over the raw input                                *)
(***************************************************************************)
\* plausible slip: only the https:// prefix is recognised
_check_is_url_HttpsOnly(input_data) ==
    IF input_data.ty = "dict"
    THEN LET url == Get(input_data.d, "url")
         IN  url.ty # "none" /\ url.ty = "str" /\ StartsWith(url.s, Https)
    ELSE IF input_data.ty = "str"
    THEN StartsWith(input_data.s, Https)
    ELSE FALSE

\* plausible slip: any dict carrying a 'url' key counts as a URL
_check_is_url_AnyUrlKey(input_data) ==
    IF input_data.ty = "dict"
    THEN HasKey(input_data.d, "url")
    ELSE IF input_data.ty = "str"
    THEN StartsWith(input_data.s, Http) \/ StartsWith(input_data.s, Https)
    ELSE FALSE

_check_is_url(input_data) ==
    IF input_data.ty = "dict"
    THEN LET url == Get(input_data.d, "url")
         IN  /\ url.ty # "none"
             /\ url.ty = "str"
             /\ (StartsWith(url.s, Http) \/ StartsWith(url.s, Https))
    ELSE IF input_data.ty = "str"
    THEN StartsWith(input_data.s, Http) \/ StartsWith(input_data.s, Https)
    ELSE FALSE

is_url_input(step_input) == _check_is_url(step_input.input)

_check_has_url_or_html(input_data) ==
    IF input_data.ty = "dict"
    THEN HasKey(input_data.d, "url") \/ HasKey(input_data.d, "html")
    ELSE IF input_data.ty = "str"
    THEN TRUE
    ELSE FALSE

\* plausible slip: the condition trusts the classifier's opinion
has_url_or_html_ByClassifier(step_input) ==
    step_input.previous_step_content.tag \in {"url", "html"}

has_url_or_html(step_input) == _check_has_url_or_html(step_input.input)

\* plausible slip: only the single-screenshot key is looked up
_check_has_screenshot_SingleOnly(input_data) ==
    IF input_data.ty = "dict"
    THEN HasKey(input_data.d, "screenshot")
    ELSE FALSE

_check_has_screenshot(input_data) ==
    IF input_data.ty = "dict"
    THEN HasKey(input_data.d, "screenshot") \/ HasKey(input_data.d, "screenshots")
    ELSE FALSE

has_screenshot(step_input) == _check_has_screenshot(step_input.input)

needs_uiux_analysis(step_input) ==
    _check_is_url(step_input.input) \/ _check_has_screenshot(step_input.input)

(***************************************************************************)
(* The workflow: steps in declaration order, one Condition per branch      *)
(***************************************************************************)
\* plausible slip: the summary step declared before the UI/UX condition
WorkflowSteps_SummaryEarly == <<"classify", "seo", "perf", "summary", "uiux">>

WorkflowSteps == <<"classify", "seo", "perf", "uiux", "summary">>

\* evaluator= of the Condition wrapping each branch
Evaluator(b, step_input) ==
    CASE b = "seo"  -> has_url_or_html(step_input)
      [] b = "perf" -> is_url_input(step_input)
      [] b = "uiux" -> needs_uiux_analysis(step_input)

CurrentStep == IF stepIdx \in 1..Len(WorkflowSteps) THEN WorkflowSteps[stepIdx] ELSE "end"

AtStep(name, ph) == wfState = "running" /\ CurrentStep = name /\ phase = ph

\* the run moves to the next declared step, or ends after the last one
NextStep ==
    /\ stepIdx' = stepIdx + 1
    /\ phase' = "cond"
    /\ wfState' = IF stepIdx + 1 > Len(WorkflowSteps) THEN "done" ELSE "running"

\* an exception nobody catches propagates out of the run
Abort ==
    /\ wfState' = "aborted"
    /\ UNCHANGED <<stepIdx, phase>>

(***************************************************************************)
(* analyze(): announce the mode, then start the workflow on the raw input  *)
(***************************************************************************)
AnnouncedMode(input_data) ==
    LET is_url         == _check_is_url(input_data)
        is_html        == _check_has_url_or_html(input_data) /\ ~is_url
        has_screenshot_ == _check_has_screenshot(input_data)
    IN  IF is_url THEN "SEO + Performance + UI/UX"
        ELSE IF is_html THEN "SEO Only"
        ELSE IF has_screenshot_ THEN "UI/UX Only"
        ELSE "Unknown input type"

analyze ==
    /\ wfState = "idle"
    /\ \E input_data \in Inputs :
          /\ input' = input_data
          /\ mode' = AnnouncedMode(input_data)
    /\ wfState' = "running"
    /\ stepIdx' = 1
    /\ phase' = "cond"
    /\ UNCHANGED <<previous_step_content, classifierCall, classification, branch,
                   extractorCall, stepOut, finished, handed, summaryStarted>>
    /\ UNCHANGED outsideWorkflow

(***************************************************************************)
(* Step "Input Classification"                                             *)
(***************************************************************************)
ClassifierTypes == {"url", "html", "screenshot", "unknown"}

\* the default classification built by the except clause
DefaultClassification == Content("classification", "unknown", "low")

\* plausible slip: the default classification guesses "url"
ClassifyResult_DefaultUrl(call, type) ==
    IF call = "ok"
    THEN Content("classification", type, "high")
    ELSE Content("classification", "url", "low")

\* what classify_input_step returns: the agent's answer, or the default
\* classification when the agent call raised
ClassifyResult(call, type) ==
    IF call = "ok"
    THEN Content("classification", type, "high")
    ELSE DefaultClassification

classify_input_step ==
    /\ AtStep("classify", "cond")
    /\ \E call \in {"ok", "raised"}, type \in ClassifierTypes :
          /\ call = "raised" => type = "unknown"
          /\ classifierCall' = call
          /\ classification' = ClassifyResult(call, type)
          /\ previous_step_content' = ClassifyResult(call, type)
    /\ NextStep
    /\ UNCHANGED <<input, mode, branch, extractorCall, stepOut, finished, handed,
                   summaryStarted>>
    /\ UNCHANGED outsideWorkflow

(***************************************************************************)
(* Condition: run the branch's steps iff its evaluator holds               *)
(***************************************************************************)
EvaluateCondition(b) ==
    /\ AtStep(b, "cond")
    /\ IF Evaluator(b, StepInput)
       THEN /\ branch' = [branch EXCEPT ![b] = "running"]
            /\ phase' = "extract"
            /\ UNCHANGED <<wfState, stepIdx, finished>>
       ELSE /\ branch' = [branch EXCEPT ![b] = "skipped"]
            /\ finished' = Append(finished, b)
            /\ NextStep
    /\ UNCHANGED <<input, mode, previous_step_content, classifierCall, classification,
                   extractorCall, stepOut, handed, summaryStarted>>
    /\ UNCHANGED outsideWorkflow

(***************************************************************************)
(* Extraction steps.  Each returns a content; "raise" stands for an        *)
(* exception that leaves the step function.  `outcome` is what the         *)
(* extractor call did: "ok", "raised", or "none" when it was not reached.   *)
(***************************************************************************)
Raise(b) == Content("raise", b, "")

ErrExtract(b) ==
    CASE b = "seo"  -> Content("error", "seo",  "[SEO] Error extracting features")
      [] b = "perf" -> Content("error", "perf", "[PERFORMANCE] Error extracting features")
      [] b = "uiux" -> Content("error", "uiux", "[UI/UX] Error extracting features")

\* url chosen by the SEO step from the raw input
SeoUrl(input_data) ==
    IF input_data.ty = "dict"
    THEN Get(input_data.d, "url")
    ELSE IF input_data.ty = "str"
            /\ (StartsWith(input_data.s, Http) \/ StartsWith(input_data.s, Https))
    THEN PyStr(input_data.s)
    ELSE PyNone

SeoCalls(input_data) == TRUE

\* plausible slip: the extractor call is not inside the try block
extract_seo_features_result_NoCatch(input_data, outcome) ==
    LET source_type == IF Truthy(SeoUrl(input_data)) THEN "URL" ELSE "Raw HTML"
    IN  IF outcome = "ok"
        THEN Content("features", "seo", source_type)
        ELSE Raise("seo")

extract_seo_features_result(input_data, outcome) ==
    LET source_type == IF Truthy(SeoUrl(input_data)) THEN "URL" ELSE "Raw HTML"
    IN  IF outcome = "ok"
        THEN Content("features", "seo", source_type)
        ELSE ErrExtract("seo")

\* url chosen by the Performance step from the raw input
PerfUrl(input_data) ==
    IF input_data.ty = "dict"
    THEN Get(input_data.d, "url")
    ELSE IF input_data.ty = "str"
            /\ (StartsWith(input_data.s, Http) \/ StartsWith(input_data.s, Https))
    THEN PyStr(input_data.s)
    ELSE PyNone

PerfCalls(input_data) == Truthy(PerfUrl(input_data))

\* plausible slip: the except clause returns an empty output
extract_performance_features_result_Silent(input_data, outcome) ==
    IF ~Truthy(PerfUrl(input_data))
    THEN Content("error", "perf",
                 "[PERFORMANCE] Error: Performance analysis requires a valid URL")
    ELSE IF outcome = "ok"
    THEN Content("features", "perf", "URL")
    ELSE NoOutput

extract_performance_features_result(input_data, outcome) ==
    IF ~Truthy(PerfUrl(input_data))
    THEN Content("error", "perf",
                 "[PERFORMANCE] Error: Performance analysis requires a valid URL")
    ELSE IF outcome = "ok"
    THEN Content("features", "perf", "URL")
    ELSE ErrExtract("perf")

\* url / screenshot / screenshots chosen by the UI/UX step from the raw input
UiuxUrl(input_data) ==
    IF input_data.ty = "dict"
    THEN Get(input_data.d, "url")
    ELSE IF input_data.ty = "str"
            /\ (StartsWith(input_data.s, Http) \/ StartsWith(input_data.s, Https))
    THEN PyStr(input_data.s)
    ELSE PyNone

UiuxScreenshot(input_data) ==
    IF input_data.ty = "dict" THEN Get(input_data.d, "screenshot") ELSE PyNone

UiuxScreenshots(input_data) ==
    IF input_data.ty = "dict" THEN Get(input_data.d, "screenshots") ELSE PyNone

\* UIUXExtractor.__init__: the input mode
UiuxMode(url, screenshot, screenshots) ==
    IF Truthy(url) THEN "url"
    ELSE IF Truthy(screenshots) THEN "screenshots"
    ELSE IF Truthy(screenshot) THEN "screenshot"
    ELSE "invalid"

\* screenshots.keys() is evaluated, outside the try block, when url is falsy
\* and screenshots is truthy: it raises unless screenshots is a mapping
UiuxKeysRaises(input_data) ==
    /\ ~Truthy(UiuxUrl(input_data))
    /\ Truthy(UiuxScreenshots(input_data))
    /\ UiuxScreenshots(input_data).ty # "dict"

UiuxCalls(input_data) ==
    /\ ~UiuxKeysRaises(input_data)
    /\ UiuxMode(UiuxUrl(input_data), UiuxScreenshot(input_data),
                UiuxScreenshots(input_data)) # "invalid"

extract_uiux_features_result(input_data, outcome) ==
    LET url         == UiuxUrl(input_data)
        screenshot  == UiuxScreenshot(input_data)
        screenshots == UiuxScreenshots(input_data)
    IN  IF UiuxKeysRaises(input_data)
        THEN Raise("uiux")
        ELSE IF UiuxMode(url, screenshot, screenshots) = "invalid"
        THEN Content("error", "uiux", "[UI/UX] Error: No valid input for UI/UX analysis")
        ELSE IF outcome = "ok"
        THEN Content("features", "uiux", UiuxMode(url, screenshot, screenshots))
        ELSE ErrExtract("uiux")

ExtractorCalled(b, input_data) ==
    CASE b = "seo"  -> SeoCalls(input_data)
      [] b = "perf" -> PerfCalls(input_data)
      [] b = "uiux" -> UiuxCalls(input_data)

\* the part of an extraction step common to the three branches: the step
\* returns `result` to the run, or its exception propagates
ReturnFromExtraction(b, outcome, result) ==
    /\ extractorCall' = [extractorCall EXCEPT ![b] = outcome]
    /\ IF result.kind = "raise"
       THEN /\ Abort
            /\ UNCHANGED <<previous_step_content, stepOut, handed>>
       ELSE /\ stepOut' = [stepOut EXCEPT ![b] = result]
            /\ handed' = Append(handed, result)
            /\ previous_step_content' = result
            /\ phase' = "analyse"
            /\ UNCHANGED <<wfState, stepIdx>>
    /\ UNCHANGED <<input, mode, classifierCall, classification, branch, finished,
                   summaryStarted>>
    /\ UNCHANGED outsideWorkflow

Outcomes(b, input_data) ==
    IF ExtractorCalled(b, input_data) THEN {"ok", "raised"} ELSE {"none"}

extract_seo_features_step ==
    /\ AtStep("seo", "extract")
    /\ \E outcome \in Outcomes("seo", StepInput.input) :
          ReturnFromExtraction("seo", outcome,
                               extract_seo_features_result(StepInput.input, outcome))

extract_performance_features_step ==
    /\ AtStep("perf", "extract")
    /\ \E outcome \in Outcomes("perf", StepInput.input) :
          ReturnFromExtraction("perf", outcome,
                               extract_performance_features_result(StepInput.input, outcome))

extract_uiux_features_step ==
    /\ AtStep("uiux", "extract")
    /\ \E outcome \in Outcomes("uiux", StepInput.input) :
          ReturnFromExtraction("uiux", outcome,
                               extract_uiux_features_result(StepInput.input, outcome))

(***************************************************************************)
(* Analysis steps that close a branch, and the summary step                *)
(***************************************************************************)
\* the branch's last step returned `result`: the branch is terminal
CloseBranch(b, result) ==
    /\ previous_step_content' = result
    /\ branch' = [branch EXCEPT ![b] = "ran"]
    /\ finished' = Append(finished, b)
    /\ NextStep
    /\ UNCHANGED <<input, mode, classifierCall, classification, extractorCall,
                   stepOut, handed, summaryStarted>>
    /\ UNCHANGED outsideWorkflow

\* Step(agent=seo_analyst) / Step(agent=performance_analyst)
AgentAnalysis(b) ==
    /\ b \in {"seo", "perf"}
    /\ AtStep(b, "analyse")
    /\ CloseBranch(b, Content("analysis", b, ""))

\* json.loads of the previous content fails on an error message; the agent
\* call may fail too; both are caught inside the step
analyze_uiux_with_vision_step ==
    /\ AtStep("uiux", "analyse")
    /\ \E agent \in {"ok", "raised"} :
          CloseBranch("uiux",
              IF previous_step_content.kind = "features" /\ agent = "ok"
              THEN Content("analysis", "uiux", "UI/UX analysis completed (displayed above)")
              ELSE Content("error", "uiux", "[UI/UX] Error during vision analysis"))

\* Step(agent=summary_analyst)
SummaryStep ==
    /\ AtStep("summary", "cond")
    /\ summaryStarted' = TRUE
    /\ previous_step_content' = Content("analysis", "summary", "")
    /\ NextStep
    /\ UNCHANGED <<input, mode, classifierCall, classification, branch, extractorCall,
                   stepOut, finished, handed>>
    /\ UNCHANGED outsideWorkflow

(***************************************************************************)
(* Initial state and the workflow specification                            *)
(***************************************************************************)
InitWorkflow ==
    /\ wfState = "idle"
    /\ input = NoInput
    /\ mode = ""
    /\ stepIdx = 0
    /\ phase = "cond"
    /\ previous_step_content = NoOutput
    /\ classifierCall = "none"
    /\ classification = NoOutput
    /\ branch = [b \in Branches |-> "pending"]
    /\ extractorCall = [b \in Branches |-> "none"]
    /\ stepOut = [b \in Branches |-> NoOutput]
    /\ finished = <<>>
    /\ handed = <<>>
    /\ summaryStarted = FALSE

(***************************************************************************)
(* Performance feature dictionaries.  A value is null, a number, a string  *)
(* or a boolean; a dictionary is a function from its keys to values.       *)
(***************************************************************************)
Null    == [t |-> "null", n |-> 0, s |-> ""]
Num(x)  == [t |-> "num",  n |-> x, s |-> ""]
Str(x)  == [t |-> "str",  n |-> 0, s |-> x]
Bool(b) == [t |-> "bool", n |-> IF b THEN 1 ELSE 0, s |-> ""]

\* Python truthiness of a feature value
ValTruthy(v) ==
    \/ v.t = "num" /\ v.n # 0
    \/ v.t = "str" /\ v.s # ""
    \/ v.t = "bool" /\ v.n = 1

EmptyFeatures == [k \in {} |-> Null]

\* dict.get(key)
FGet(d, k) == IF k \in DOMAIN d THEN d[k] ELSE Null

\* dict.update(e)
Update(d, e) ==
    [k \in DOMAIN d \cup DOMAIN e |-> IF k \in DOMAIN e THEN e[k] ELSE d[k]]

\* plausible slip: the local data overlays the combined data unconditionally
MergeLocal_Overwrite(combined, local) == Update(combined, local)

\* for key, value in local_data.items():
\*     if combined_features.get(key) is None: combined_features[key] = value
MergeLocal(combined, local) ==
    [k \in DOMAIN combined \cup DOMAIN local |->
        IF k \in DOMAIN local /\ FGet(combined, k) = Null
        THEN local[k]
        ELSE combined[k]]

\* keys of the three _to_dict() results that the model keeps
PageSpeedKeys == {"url", "analyzed_at", "performance_score", "accessibility_score",
                  "best_practices_score", "seo_score", "lcp_value", "fcp_value",
                  "uses_http2", "analysis_source", "api_error", "fallback_used"}
HeaderKeys    == {"url", "analyzed_at", "response_time", "http_status_code",
                  "uses_http2", "analysis_source", "api_error"}
LocalKeys     == {"url", "analyzed_at", "response_time", "fcp_value", "total_page_size",
                  "html_requests", "analysis_source", "api_error"}

TheUrl == Str("https://a")

(***************************************************************************)
(* Stage 1: PerformanceAnalyzer.extract()                                  *)
(***************************************************************************)
\* the categories of lighthouseResult and the feature each score is stored in
Categories == {"performance", "accessibility", "best-practices", "seo"}

ScoreKey(c) ==
    CASE c = "performance"    -> "performance_score"
      [] c = "accessibility"  -> "accessibility_score"
      [] c = "best-practices" -> "best_practices_score"
      [] c = "seo"            -> "seo_score"

\* a score of the service, in hundredths: Num(57) stands for 0.57; Null for a
\* category without a score
ServiceScores == {Null, Num(0), Num(57), Num(80)}

\* int(score * 100) in double precision: the product falls just below the
\* integer for these hundredths (0.57 * 100 = 56.99999999999999)
TruncatedHundredths == {29, 57, 58}

Times100(n) == IF n \in TruncatedHundredths THEN n - 1 ELSE n

\* int(c.get("score", 0) * 100) if c.get("score") else None
CategoryScore(score) == IF ValTruthy(score) THEN Num(Times100(score.n)) ELSE Null

\* what the remote audit answered, when it answered
PageSpeedAnswers ==
    [categories : [Categories -> ServiceScores], lcp_value : {Null, Num(2500)},
     fcp_value : {Null, Num(1800)}, uses_http2 : {Bool(FALSE), Bool(TRUE)}]

NoScores == [c \in Categories |-> Null]

NoAnswer == [categories |-> NoScores, lcp_value |-> Null, fcp_value |-> Null,
             uses_http2 |-> Bool(FALSE)]

PageSpeedOutcomes == {"ok", "request_exception", "exception"}
\* outcomes the except clauses of PerformanceAnalyzer.extract handle
PageSpeedHandled  == {"request_exception", "exception"}

PerformanceAnalyzer_extract(outcome, answer, now) ==
    [k \in PageSpeedKeys |->
        CASE k = "url"               -> TheUrl
          [] k = "analyzed_at"       -> IF outcome = "ok" THEN Num(now) ELSE Str("")
          [] k \in {ScoreKey(c) : c \in Categories} ->
                LET c == CHOOSE c \in Categories : ScoreKey(c) = k
                IN  IF outcome = "ok" THEN CategoryScore(answer.categories[c]) ELSE Null
          [] k = "lcp_value"         -> IF outcome = "ok" THEN answer.lcp_value ELSE Null
          [] k = "fcp_value"         -> IF outcome = "ok" THEN answer.fcp_value ELSE Null
          [] k = "uses_http2"        -> IF outcome = "ok" THEN answer.uses_http2 ELSE Bool(FALSE)
          [] k = "analysis_source"   -> IF outcome = "ok" THEN Str("pagespeed") ELSE Str("unknown")
          [] k = "api_error"         ->
                IF outcome = "ok" THEN Null
                ELSE IF outcome = "request_exception"
                THEN Str("PageSpeed API request failed")
                ELSE Str("Unexpected error during PageSpeed analysis")
          [] k = "fallback_used"     -> Bool(outcome = "request_exception")]

(***************************************************************************)
(* Stage 2: HeaderAnalyzer.extract()                                       *)
(***************************************************************************)
HeaderOutcomes == {"ok", "exception"}
HeaderHandled  == {"exception"}

HeaderAnalyzer_extract(outcome, http2, now) ==
    [k \in HeaderKeys |->
        CASE k = "url"              -> TheUrl
          [] k = "analyzed_at"      -> IF outcome = "ok" THEN Num(now) ELSE Str("")
          [] k = "response_time"    -> IF outcome = "ok" THEN Num(120) ELSE Null
          [] k = "http_status_code" -> IF outcome = "ok" THEN Num(200) ELSE Null
          [] k = "uses_http2"       -> IF outcome = "ok" THEN Bool(http2) ELSE Bool(FALSE)
          [] k = "analysis_source"  -> IF outcome = "ok" THEN Str("headers") ELSE Str("unknown")
          [] k = "api_error"        ->
                IF outcome = "ok" THEN Null ELSE Str("Error analyzing headers")]

(***************************************************************************)
(* Stage 3: LocalPerformanceAnalyzer.extract()                             *)
(***************************************************************************)
\* "close_failed": the metrics were stored and browser.close() raised
LocalOutcomes == {"ok", "import_error", "exception", "close_failed"}
LocalHandled  == {"import_error", "exception", "close_failed"}

LocalAnswers == [fcp_value : {Null, Num(2200)}, total_page_size : {Null, Num(4096)}]

LocalPerformanceAnalyzer_extract(outcome, answer, now) ==
    LET measured == outcome \in {"ok", "close_failed"}
    IN  [k \in LocalKeys |->
        CASE k = "url"             -> TheUrl
          [] k = "analyzed_at"     -> IF outcome = "ok" THEN Num(now) ELSE Str("")
          [] k = "response_time"   -> IF measured THEN Num(999) ELSE Null
          [] k = "fcp_value"       -> IF measured THEN answer.fcp_value ELSE Null
          [] k = "total_page_size" -> IF measured THEN answer.total_page_size ELSE Null
          [] k = "html_requests"   -> IF measured THEN Num(1) ELSE Num(0)
          [] k = "analysis_source" -> IF outcome = "ok" THEN Str("local") ELSE Str("unknown")
          [] k = "api_error"       ->
                IF outcome = "ok" THEN Null
                ELSE IF outcome = "import_error" THEN Str("Playwright not installed")
                ELSE Str("Error during local performance analysis")]

(***************************************************************************)
(* analyze_performance(url, use_fallback)                                  *)
(***************************************************************************)
InitPerformance ==
    /\ ppc = "idle"
    /\ use_fallback = TRUE
    /\ clock = 0
    /\ stageOutcome = [s \in {"pagespeed", "headers", "local"} |-> "none"]
    /\ stageOrder = <<>>
    /\ categories = NoScores
    /\ pagespeed_data = EmptyFeatures
    /\ headers_data = EmptyFeatures
    /\ local_data = EmptyFeatures
    /\ combined_features = EmptyFeatures
    /\ perfRaised = FALSE

\* the call: combined_features = {}
analyze_performance_call ==
    /\ ppc = "idle"
    /\ \E fb \in BOOLEAN, now \in 0..MaxClock :
          /\ use_fallback' = fb
          /\ clock' = now
    /\ ppc' = "stage1"
    /\ combined_features' = EmptyFeatures
    /\ UNCHANGED <<stageOutcome, stageOrder, categories, pagespeed_data, headers_data,
                   local_data, perfRaised>>
    /\ UNCHANGED outsidePerformance

\* 1. pagespeed_data = pagespeed.extract(); combined_features.update(pagespeed_data)
PageSpeedStage ==
    /\ ppc = "stage1"
    /\ \E outcome \in PageSpeedOutcomes, answer \in PageSpeedAnswers :
          /\ outcome # "ok" => answer = NoAnswer
          /\ LET data == PerformanceAnalyzer_extract(outcome, answer, clock + 1)
             IN  /\ categories' = answer.categories
                 /\ pagespeed_data' = data
                 /\ combined_features' = Update(combined_features, data)
          /\ stageOutcome' = [stageOutcome EXCEPT !["pagespeed"] = outcome]
          /\ perfRaised' = (perfRaised \/ (outcome # "ok" /\ outcome \notin PageSpeedHandled))
    /\ clock' = clock + 1
    /\ stageOrder' = Append(stageOrder, "pagespeed")
    /\ ppc' = "stage2"
    /\ UNCHANGED <<use_fallback, headers_data, local_data>>
    /\ UNCHANGED outsidePerformance

\* plausible slip: stage 3 runs after every stage-1 error, use_fallback or not
RunsLocal_AnyError(ps_data, fallback) == ValTruthy(FGet(ps_data, "api_error"))

\* the test guarding stage 3
RunsLocal(ps_data, fallback) == ValTruthy(FGet(ps_data, "api_error")) /\ fallback

\* 2. headers_data = headers.extract(); combined_features.update(headers_data);
\*    then the test guarding stage 3
HeaderStage ==
    /\ ppc = "stage2"
    /\ \E outcome \in HeaderOutcomes, http2 \in BOOLEAN :
          /\ outcome # "ok" => http2 = FALSE
          /\ LET data == HeaderAnalyzer_extract(outcome, http2, clock + 1)
             IN  /\ headers_data' = data
                 /\ combined_features' = Update(combined_features, data)
          /\ stageOutcome' = [stageOutcome EXCEPT !["headers"] = outcome]
          /\ perfRaised' = (perfRaised \/ (outcome # "ok" /\ outcome \notin HeaderHandled))
    /\ clock' = clock + 1
    /\ stageOrder' = Append(stageOrder, "headers")
    /\ ppc' = IF RunsLocal(pagespeed_data, use_fallback) THEN "stage3" ELSE "done"
    /\ UNCHANGED <<use_fallback, categories, pagespeed_data, local_data>>
    /\ UNCHANGED outsidePerformance

\* 3. local_data = local.extract(); fill the fields that are still None; return
LocalStage ==
    /\ ppc = "stage3"
    /\ \E outcome \in LocalOutcomes, answer \in LocalAnswers :
          /\ LET data == LocalPerformanceAnalyzer_extract(outcome, answer, clock + 1)
             IN  /\ local_data' = data
                 /\ combined_features' = MergeLocal(combined_features, data)
          /\ stageOutcome' = [stageOutcome EXCEPT !["local"] = outcome]
          /\ perfRaised' = (perfRaised \/ (outcome # "ok" /\ outcome \notin LocalHandled))
    /\ clock' = clock + 1
    /\ stageOrder' = Append(stageOrder, "local")
    /\ ppc' = "done"
    /\ UNCHANGED <<use_fallback, categories, pagespeed_data, headers_data>>
    /\ UNCHANGED outsidePerformance

(***************************************************************************)
(* HtmlContentExtractor (src/src/extractors/html_extractor.py).            *)
(* A markup is described by what BeautifulSoup finds in it.                *)
(***************************************************************************)
\* longest list of <a> elements in an enumerated markup
MaxLinks == 2
\* longest list of JSON-LD script blocks in an enumerated markup
MaxBlocks == 2
\* longest list of <img> elements enumerated alt by alt
MaxImgs == 2
\* largest number of extract() calls made on one extractor
MaxCalls == 2

PageHosts == {"a.com", "b.com"}

\* the url argument: None, or a URL whose urlparse(...).netloc is `netloc`
PageUrl(netloc) == [given |-> TRUE, netloc |-> netloc]
NoUrl == [given |-> FALSE, netloc |-> ""]
PageUrls == {NoUrl} \cup {PageUrl(h) : h \in PageHosts}

\* an href: its leading characters, and the scheme and netloc urlparse reads
Href(s, scheme, netloc) == [s |-> s, scheme |-> scheme, netloc |-> netloc]
Hrefs ==
    {Href(<<"#">>, "", ""),
     Href(<<"j", "a", "v", "a", "s", "c", "r", "i", "p", "t", ":">>, "javascript", ""),
     Href(<<"/">>, "", ""),
     Href(<<"m", "a", "i", "l", "t", "o", ":">>, "mailto", "")}
    \cup {Href(Http, "http", h) : h \in PageHosts}

\* urlparse(urljoin(self.url, href)).netloc: a relative href takes the page's
\* netloc, an absolute one keeps its own, a mailto: href has none
ResolvedNetloc(url, href) ==
    IF href.scheme = "" THEN url.netloc
    ELSE IF href.scheme = "http" THEN href.netloc
    ELSE ""

\* a JSON-LD script block: what json.loads(script.string) does, and the
\* '@type' of each item of the parsed data
Block(parse, types) == [parse |-> parse, types |-> types]
Blocks ==
    {Block("ok", <<"FAQPage">>),
     Block("ok", <<"BreadcrumbList", "LocalBusiness">>),
     Block("ok", <<"">>),
     Block("decode_error", <<>>),      \* malformed JSON
     Block("type_error", <<>>)}        \* script.string is None

\* 'FAQ' in schema_type, over the types enumerated
ContainsFAQ(schema_type) == schema_type \in {"FAQPage"}

\* the alt attribute of an <img>: absent, or a string
Alts == {Absent, PyStr(<<>>), PyStr(<<" ">>), PyStr(<<"a">>), PyStr(<<" ", "a">>)}

SeqsUpTo(S, n) == UNION {[1..m -> S] : m \in 0..n}

\* nText images with an alt text followed by nMissing images without alt
ImgsOf(nText, nMissing) ==
    [i \in 1..(nText + nMissing) |-> IF i <= nText THEN PyStr(<<"a">>) ELSE Absent]

Doc(h1, h2, h3, words, paragraphs, lists, tables, imgs, links, scripts) ==
    [h1 |-> h1, h2 |-> h2, h3 |-> h3, words |-> words, paragraphs |-> paragraphs,
     lists |-> lists, tables |-> tables, imgs |-> imgs, links |-> links,
     scripts |-> scripts]

Paragraphs(count, words) == [count |-> count, words |-> words]

\* <html><body><h1>A</h1> ... </body></html> with nothing else in it
PlainDoc == Doc(1, 0, 0, 1, Paragraphs(0, 0), 0, 0, <<>>, <<>>, <<>>)

\* markups that differ in what the content-depth score reads
DepthDocs ==
    {Doc(h1, hs[1], hs[2], words, ps, ls[1], ls[2], imgs, <<>>, <<>>) :
        h1 \in {0, 1, 2},
        hs \in {<<0, 0>>, <<3, 1>>, <<2, 2>>, <<3, 2>>},
        words \in {0, 299, 300, 500, 1000, 2000},
        ps \in {Paragraphs(0, 0), Paragraphs(5, 74), Paragraphs(5, 75),
                Paragraphs(10, 299), Paragraphs(10, 300)},
        ls \in {<<0, 0>>, <<1, 0>>, <<0, 2>>, <<1, 1>>},
        imgs \in {ImgsOf(0, 0), ImgsOf(1, 0), ImgsOf(1, 1), ImgsOf(4, 1), ImgsOf(3, 2)}}

\* markups that differ in their images, links or JSON-LD blocks
ImageDocs  == {[PlainDoc EXCEPT !.imgs = i] : i \in SeqsUpTo(Alts, MaxImgs)}
LinkDocs   == {[PlainDoc EXCEPT !.links = l] : l \in SeqsUpTo(Hrefs, MaxLinks)}
ScriptDocs == {[PlainDoc EXCEPT !.scripts = b] : b \in SeqsUpTo(Blocks, MaxBlocks)}

\* a markup string: None, "", or a document
Markup(kind, d) == [kind |-> kind, d |-> d]
NoMarkup    == Markup("none", PlainDoc)
EmptyMarkup == Markup("empty", PlainDoc)

\* HtmlContentExtractor(url, html), and the markup the URL serves
Page(url, html, web) == [url |-> url, html |-> html, web |-> web]
NoPage == Page(NoUrl, NoMarkup, NoMarkup)

Pages ==
    \* markup handed in, with or without the page url
    {Page(u, Markup("doc", d), NoMarkup) :
        u \in PageUrls, d \in ImageDocs \cup LinkDocs \cup ScriptDocs}
    \cup {Page(PageUrl("a.com"), Markup("doc", d), NoMarkup) : d \in DepthDocs}
    \* a url only: the markup is fetched
    \cup {Page(PageUrl(h), html, web) :
            h \in PageHosts, html \in {NoMarkup, EmptyMarkup},
            web \in {EmptyMarkup} \cup {Markup("doc", d) : d \in LinkDocs \cup ScriptDocs}}
    \* neither, or an empty markup
    \cup {Page(NoUrl, NoMarkup, NoMarkup), Page(NoUrl, EmptyMarkup, NoMarkup)}

\* self.soup
Soup(d) == [present |-> TRUE, d |-> d]
NoSoup  == [present |-> FALSE, d |-> PlainDoc]

\* SEOFeatures(): the fields the model keeps, at their defaults.
\* average_paragraph_length is kept in tenths.
SEOFeatures ==
    [h1_count |-> 0, h2_count |-> 0, h3_count |-> 0, word_count |-> 0,
     paragraph_count |-> 0, average_paragraph_length |-> 0,
     has_lists |-> FALSE, list_count |-> 0, has_tables |-> FALSE, table_count |-> 0,
     content_depth_score |-> 0,
     internal_links |-> 0, external_links |-> 0, total_links |-> 0,
     has_json_ld |-> FALSE, json_ld_types |-> <<>>, has_faq_schema |-> FALSE,
     has_breadcrumb_schema |-> FALSE, has_local_business_schema |-> FALSE,
     total_images |-> 0, images_with_alt |-> 0, images_without_alt |-> 0]

InitHtml ==
    /\ hpc = "new"
    /\ page = NoPage
    /\ fetch = "none"
    /\ soup = NoSoup
    /\ features = SEOFeatures
    /\ extractCalls = 0
    /\ extractResult = "none"
    /\ htmlRaised = FALSE
    /\ firstReturn = SEOFeatures

\* if self.html: / if url and not html:
MarkupTruthy(m) == m.kind = "doc"

\* what requests.get / raise_for_status met; a network error, a timeout and
\* an HTTP error status are all requests.RequestException
FetchOutcomes     == {"ok", "connection_error", "timeout", "http_error"}
RequestExceptions == {"connection_error", "timeout", "http_error"}

\* plausible slip: the except clause re-raises
_fetch_html_Reraise(pg, outcome) ==
    [html   |-> IF outcome = "ok" THEN pg.web ELSE pg.html,
     raised |-> outcome \in RequestExceptions]

\* _fetch_html: self.html after the call, and whether an exception left it.
\* The except clause returns a string before it reaches its `raise`.
_fetch_html(pg, outcome) ==
    [html   |-> IF outcome = "ok" THEN pg.web ELSE pg.html,
     raised |-> FALSE]

\* HtmlContentExtractor(url, html)
HtmlContentExtractor_init ==
    /\ hpc = "new"
    /\ \E pg \in Pages, outcome \in FetchOutcomes \cup {"none"} :
          LET fetches == pg.url.given /\ ~MarkupTruthy(pg.html)
              got     == IF fetches THEN _fetch_html(pg, outcome)
                         ELSE [html |-> pg.html, raised |-> FALSE]
          IN  /\ (outcome = "none") <=> ~fetches
              /\ page' = pg
              /\ fetch' = outcome
              /\ htmlRaised' = got.raised
              /\ soup' = IF ~got.raised /\ MarkupTruthy(got.html)
                         THEN Soup(got.html.d) ELSE NoSoup
              /\ hpc' = IF got.raised THEN "failed" ELSE "constructed"
    /\ features' = SEOFeatures
    /\ UNCHANGED <<extractCalls, extractResult, firstReturn>>
    /\ UNCHANGED outsideHtml

\* the methods extract() calls, in its order, that write a field the model
\* keeps (extract_text decomposes the same elements as extract_content_metrics)
ExtractSequence ==
    <<"extract_headings", "extract_content_metrics", "extract_link_features",
      "extract_image_features", "extract_structured_data_enhanced",
      "extract_content_depth">>

\* extract(): without a soup the error dictionary is returned at once
extract ==
    /\ hpc \in {"constructed", "returned"}
    /\ extractCalls < MaxCalls
    /\ extractCalls' = extractCalls + 1
    /\ IF ~soup.present
       THEN /\ extractResult' = "error"
            /\ hpc' = "returned"
       ELSE /\ extractResult' = "none"
            /\ hpc' = ExtractSequence[1]
    /\ UNCHANGED <<page, fetch, soup, features, htmlRaised, firstReturn>>
    /\ UNCHANGED outsideHtml

\* the method `name` returned: extract() calls the next one, or returns
\* asdict(self.features), a copy of the features `f` the method left
Advance(name, f) ==
    LET i == CHOOSE j \in 1..Len(ExtractSequence) : ExtractSequence[j] = name
    IN  /\ hpc = name
        /\ features' = f
        /\ IF i < Len(ExtractSequence)
           THEN /\ hpc' = ExtractSequence[i + 1]
                /\ UNCHANGED <<extractResult, firstReturn>>
           ELSE /\ hpc' = "returned"
                /\ extractResult' = "features"
                /\ firstReturn' = IF extractCalls = 1 THEN f ELSE firstReturn
        /\ UNCHANGED <<page, fetch, extractCalls, htmlRaised>>
        /\ UNCHANGED outsideHtml

extract_headings ==
    /\ Advance("extract_headings",
               [features EXCEPT !.h1_count = soup.d.h1,
                                !.h2_count = soup.d.h2,
                                !.h3_count = soup.d.h3])
    /\ UNCHANGED soup

\* for script in self.soup(['script', 'style']): script.decompose()
Decompose(s) == [s EXCEPT !.d.scripts = <<>>]

extract_content_metrics ==
    /\ Advance("extract_content_metrics", [features EXCEPT !.word_count = soup.d.words])
    /\ soup' = Decompose(soup)

RECURSIVE CountLinks(_, _, _)
\* the loop over soup.find_all('a', href=True)
CountLinks(f, url, links) ==
    IF links = <<>> THEN f
    ELSE LET href        == Head(links)
             link_domain == ResolvedNetloc(url, href)
             g == IF StartsWith(href.s, <<"#">>)
                     \/ StartsWith(href.s, <<"j", "a", "v", "a", "s", "c", "r", "i", "p", "t", ":">>)
                  THEN f
                  ELSE IF link_domain = url.netloc
                  THEN [f EXCEPT !.internal_links = @ + 1]
                  ELSE IF link_domain # ""
                  THEN [f EXCEPT !.external_links = @ + 1]
                  ELSE f
         IN  CountLinks(g, url, Tail(links))

\* plausible slip: total_links counts every anchor found
LinkFeatures_TotalAll(f, url, d) ==
    IF ~url.given THEN f
    ELSE LET g == CountLinks(f, url, d.links)
         IN  [g EXCEPT !.total_links = Len(d.links)]

\* extract_link_features on the features f
LinkFeatures(f, url, d) ==
    IF ~url.given THEN f
    ELSE LET g == CountLinks(f, url, d.links)
         IN  [g EXCEPT !.total_links = g.internal_links + g.external_links]

extract_link_features ==
    /\ Advance("extract_link_features", LinkFeatures(features, page.url, soup.d))
    /\ UNCHANGED soup

RECURSIVE Strip(_)
\* str.strip() over the blanks enumerated
Strip(s) ==
    IF s = <<>> THEN s
    ELSE IF Head(s) = " " THEN Strip(Tail(s))
    ELSE IF s[Len(s)] = " " THEN Strip(SubSeq(s, 1, Len(s) - 1))
    ELSE s

\* plausible slip: the alt text is not trimmed
HasAlt_NoTrim(alt) ==
    LET alt_text == IF alt.ty = "absent" THEN <<>> ELSE alt.s
    IN  alt_text # <<>>

\* if alt_text and alt_text.strip():
HasAlt(alt) ==
    LET alt_text == IF alt.ty = "absent" THEN <<>> ELSE alt.s
    IN  alt_text # <<>> /\ Strip(alt_text) # <<>>

RECURSIVE CountImages(_, _)
\* the loop over soup.find_all('img')
CountImages(f, imgs) ==
    IF imgs = <<>> THEN f
    ELSE CountImages(IF HasAlt(Head(imgs))
                     THEN [f EXCEPT !.images_with_alt = @ + 1]
                     ELSE [f EXCEPT !.images_without_alt = @ + 1],
                     Tail(imgs))

\* extract_image_features on the features f
ImageFeatures(f, d) ==
    CountImages([f EXCEPT !.total_images = Len(d.imgs)], d.imgs)

extract_image_features ==
    /\ Advance("extract_image_features", ImageFeatures(features, soup.d))
    /\ UNCHANGED soup

RECURSIVE StoreTypes(_, _)
\* the loop over the items of one parsed JSON-LD block
StoreTypes(f, types) ==
    IF types = <<>> THEN f
    ELSE LET schema_type == Head(types)
             stored == IF schema_type # ""
                          /\ \A i \in 1..Len(f.json_ld_types) : f.json_ld_types[i] # schema_type
                       THEN [f EXCEPT !.json_ld_types = Append(@, schema_type)]
                       ELSE f
             g == IF schema_type = "FAQPage" \/ ContainsFAQ(schema_type)
                  THEN [stored EXCEPT !.has_faq_schema = TRUE]
                  ELSE IF schema_type = "BreadcrumbList"
                  THEN [stored EXCEPT !.has_breadcrumb_schema = TRUE]
                  ELSE IF schema_type = "LocalBusiness"
                  THEN [stored EXCEPT !.has_local_business_schema = TRUE]
                  ELSE stored
         IN  StoreTypes(g, Tail(types))

RECURSIVE ReadBlocks(_, _)
\* the loop over json_ld_scripts: a block json.loads cannot read is skipped
ReadBlocks(f, scripts) ==
    IF scripts = <<>> THEN f
    ELSE ReadBlocks(IF Head(scripts).parse = "ok"
                    THEN StoreTypes(f, Head(scripts).types)
                    ELSE f,
                    Tail(scripts))

\* extract_structured_data_enhanced on the features f; d.scripts is what
\* soup.find_all('script', type='application/ld+json') still finds
StructuredData(f, d) ==
    IF d.scripts # <<>>
    THEN ReadBlocks([f EXCEPT !.has_json_ld = TRUE], d.scripts)
    ELSE f

extract_structured_data_enhanced ==
    /\ Advance("extract_structured_data_enhanced", StructuredData(features, soup.d))
    /\ UNCHANGED soup

\* round(total / count, 1), in tenths (round half to even)
RoundTenths(total, count) ==
    LET num == 10 * total
        q   == num \div count
        r   == num % count
    IN  IF 2 * r > count THEN q + 1
        ELSE IF 2 * r < count THEN q
        ELSE IF q % 2 = 0 THEN q ELSE q + 1

Min(a, b) == IF a <= b THEN a ELSE b
Max(a, b) == IF a >= b THEN a ELSE b

\* plausible slip: the word-count thresholds are strict
ContentDepthScore_Strict(f) ==
    LET words == IF f.word_count > 2000 THEN 30
                 ELSE IF f.word_count > 1000 THEN 20
                 ELSE IF f.word_count > 500 THEN 10
                 ELSE IF f.word_count > 300 THEN 5 ELSE 0
        paras == IF f.paragraph_count >= 10 THEN 10
                 ELSE IF f.paragraph_count >= 5 THEN 5 ELSE 0
        plen  == IF f.average_paragraph_length >= 300 THEN 10
                 ELSE IF f.average_paragraph_length >= 150 THEN 5 ELSE 0
        lists == IF f.has_lists THEN 10 ELSE 0
        tabs  == IF f.has_tables THEN 10 ELSE 0
        h1    == IF f.h1_count = 1 THEN 5 ELSE 0
        h2    == IF f.h2_count >= 3 THEN 5 ELSE 0
        h3    == IF f.h3_count >= 2 THEN 5 ELSE 0
        imgs  == IF f.total_images >= 5 THEN 10
                 ELSE IF f.total_images >= 2 THEN 5 ELSE 0
        alt   == IF f.images_with_alt > 0
                    /\ 10 * f.images_with_alt >= 8 * Max(f.total_images, 1)
                 THEN 5 ELSE 0
    IN  Min(words + paras + plen + lists + tabs + h1 + h2 + h3 + imgs + alt, 100)

\* the score computed at the end of extract_content_depth
ContentDepthScore(f) ==
    LET words == IF f.word_count >= 2000 THEN 30
                 ELSE IF f.word_count >= 1000 THEN 20
                 ELSE IF f.word_count >= 500 THEN 10
                 ELSE IF f.word_count >= 300 THEN 5 ELSE 0
        paras == IF f.paragraph_count >= 10 THEN 10
                 ELSE IF f.paragraph_count >= 5 THEN 5 ELSE 0
        plen  == IF f.average_paragraph_length >= 300 THEN 10
                 ELSE IF f.average_paragraph_length >= 150 THEN 5 ELSE 0
        lists == IF f.has_lists THEN 10 ELSE 0
        tabs  == IF f.has_tables THEN 10 ELSE 0
        h1    == IF f.h1_count = 1 THEN 5 ELSE 0
        h2    == IF f.h2_count >= 3 THEN 5 ELSE 0
        h3    == IF f.h3_count >= 2 THEN 5 ELSE 0
        imgs  == IF f.total_images >= 5 THEN 10
                 ELSE IF f.total_images >= 2 THEN 5 ELSE 0
        alt   == IF f.images_with_alt > 0
                    /\ 10 * f.images_with_alt >= 8 * Max(f.total_images, 1)
                 THEN 5 ELSE 0
    IN  Min(words + paras + plen + lists + tabs + h1 + h2 + h3 + imgs + alt, 100)

\* extract_content_depth on the features f
ContentDepth(f, d) ==
    LET g == [f EXCEPT
                !.paragraph_count = d.paragraphs.count,
                !.average_paragraph_length =
                    IF d.paragraphs.count > 0
                    THEN RoundTenths(d.paragraphs.words, d.paragraphs.count)
                    ELSE @,
                !.list_count = d.lists,
                !.has_lists = d.lists > 0,
                !.table_count = d.tables,
                !.has_tables = d.tables > 0]
    IN  [g EXCEPT !.content_depth_score = ContentDepthScore(g)]

extract_content_depth ==
    /\ Advance("extract_content_depth", ContentDepth(features, soup.d))
    /\ UNCHANGED soup

(***************************************************************************)
(* UIUXExtractor (src/src/extractors/uiux_extractor.py)                    *)
(***************************************************************************)
\* largest number of elements a DOM check of the audit reports
MaxCount == 2
\* longest list of headings in an audited page
MaxHeadings == 3
\* largest number of issues per severity the scoring arithmetic is tried on
MaxIssues == 8

Paths == {"p1.png", "p2.png"}
FileStates == {"valid", "missing", "unreadable"}

\* viewport names of a provided screenshots dict, and of URL mode
ProvidedViewports == {"desktop", "mobile"}
Viewports == <<"desktop", "tablet", "mobile">>

\* dicts viewport -> path; the empty one stands for {} and for None
ScreenshotDicts == UNION {[V -> Paths] : V \in SUBSET ProvidedViewports}

\* UIUXExtractor(url, screenshot, screenshots); "" stands for None
UxArgs ==
    [url : {"", "https://a"}, screenshot : {""} \cup Paths, screenshots : ScreenshotDicts]
NoUxArgs == [url |-> "", screenshot |-> "", screenshots |-> <<>>]

\* accessibility: None, or the audit results
NoAudit == [present |-> FALSE, score |-> 0, issues |-> <<>>,
            summary |-> [critical |-> 0, serious |-> 0, moderate |-> 0, total |-> 0]]

\* features = {"mode": ..., "screenshots": {}, "accessibility": None, "metadata": {}}
NewUxFeatures(m) ==
    [mode |-> m, screenshots |-> <<>>, accessibility |-> NoAudit, source |-> ""]

InitUiux ==
    /\ uxpc = "new"
    /\ uxArgs = NoUxArgs
    /\ uxMode = ""
    /\ fs = [p \in Paths |-> "valid"]
    /\ uxFeatures = NewUxFeatures("")
    /\ uxRaised = "none"

\* UIUXExtractor.__init__: the input mode, or ValueError
UIUXExtractor_init ==
    /\ uxpc = "new"
    /\ \E args \in UxArgs :
          LET m == IF args.url # "" THEN "url"
                   ELSE IF DOMAIN args.screenshots # {} THEN "screenshots"
                   ELSE IF args.screenshot # "" THEN "screenshot"
                   ELSE "invalid"
          IN  /\ uxArgs' = args
              /\ uxMode' = IF m = "invalid" THEN "" ELSE m
              /\ uxRaised' = IF m = "invalid" THEN "ValueError" ELSE "none"
              /\ uxpc' = IF m = "invalid" THEN "raised" ELSE "constructed"
    /\ UNCHANGED <<fs, uxFeatures>>
    /\ UNCHANGED outsideUiux

\* ---- URL mode: _capture_screenshots ----
\* what the capture met as a whole, and at each viewport
CaptureOutcomes == {"ok", "import_error", "launch_error", "close_error"}
ViewportOutcomes == [1..Len(Viewports) -> {"ok", "error"}]

\* _capture_screenshots: a viewport whose capture raised is left out; an
\* exception outside the loop gives {}
_capture_screenshots(outcome, at) ==
    IF outcome = "ok"
    THEN LET ok == {Viewports[i] : i \in {j \in 1..Len(Viewports) : at[j] = "ok"}}
         IN  [v \in ok |-> "capture"]
    ELSE <<>>

CaptureScreenshots ==
    /\ uxpc = "constructed"
    /\ uxMode = "url"
    /\ \E outcome \in CaptureOutcomes, at \in ViewportOutcomes :
          /\ outcome \in {"import_error", "launch_error"} => at = [i \in 1..Len(Viewports) |-> "error"]
          /\ uxFeatures' = [NewUxFeatures(uxMode) EXCEPT
                               !.screenshots = _capture_screenshots(outcome, at)]
    /\ uxpc' = "captured"
    /\ UNCHANGED <<uxArgs, uxMode, fs, uxRaised>>
    /\ UNCHANGED outsideUiux

\* ---- URL mode: _run_accessibility_audit ----
\* heading levels of the audited pages: h1, h3, h5 of h1 .. h6
HeadingLevels == {1, 3, 5}

\* what the five page.evaluate calls return
Doms ==
    [images_without_alt : 0..MaxCount, links_without_text : 0..MaxCount,
     inputs_without_labels : 0..MaxCount, has_lang : BOOLEAN,
     levels : SeqsUpTo(HeadingLevels, MaxHeadings)]

NoDom == [images_without_alt |-> 0, links_without_text |-> 0, inputs_without_labels |-> 0,
          has_lang |-> TRUE, levels |-> <<1>>]

Issue(type, severity, count) == [type |-> type, severity |-> severity, count |-> count]

\* the heading check evaluated in the page
HeadingIssues(levels) ==
    LET h1Count == Cardinality({i \in 1..Len(levels) : levels[i] = 1})
    IN  (IF h1Count = 0 THEN <<"No H1 heading found">> ELSE <<>>)
        \o (IF h1Count > 1 THEN <<"Multiple H1 headings">> ELSE <<>>)
        \o (IF \E i \in 2..Len(levels) : levels[i] - levels[i - 1] > 1
            THEN <<"Skipped heading level">> ELSE <<>>)

\* plausible slip: one finding per offending element
Findings_PerElement(dom) ==
    [i \in 1..dom.images_without_alt |-> Issue("missing_alt_text", "serious", 1)]
    \o [i \in 1..dom.links_without_text |-> Issue("empty_links", "serious", 1)]
    \o [i \in 1..dom.inputs_without_labels |-> Issue("unlabeled_inputs", "critical", 1)]
    \o (IF ~dom.has_lang THEN <<Issue("missing_lang", "serious", 1)>> ELSE <<>>)
    \o [i \in 1..Len(HeadingIssues(dom.levels)) |-> Issue("heading_hierarchy", "moderate", 1)]

\* accessibility_issues after the five checks
Findings(dom) ==
    (IF dom.images_without_alt > 0
     THEN <<Issue("missing_alt_text", "serious", dom.images_without_alt)>> ELSE <<>>)
    \o (IF dom.links_without_text > 0
        THEN <<Issue("empty_links", "serious", dom.links_without_text)>> ELSE <<>>)
    \o (IF dom.inputs_without_labels > 0
        THEN <<Issue("unlabeled_inputs", "critical", dom.inputs_without_labels)>> ELSE <<>>)
    \o (IF ~dom.has_lang THEN <<Issue("missing_lang", "serious", 1)>> ELSE <<>>)
    \o [i \in 1..Len(HeadingIssues(dom.levels)) |-> Issue("heading_hierarchy", "moderate", 1)]

\* len([i for i in accessibility_issues if i["severity"] == severity])
CountSeverity(issues, severity) ==
    Cardinality({i \in 1..Len(issues) : issues[i].severity = severity})

\* plausible slip: the score is not floored
AccessibilityScore_NoFloor(critical_issues, serious_issues, moderate_issues) ==
    100 - critical_issues * 15 - serious_issues * 10 - moderate_issues * 5

\* score = 100; score -= ...; score = max(0, score)
AccessibilityScore(critical_issues, serious_issues, moderate_issues) ==
    Max(0, 100 - critical_issues * 15 - serious_issues * 10 - moderate_issues * 5)

AuditResults(issues) ==
    LET critical_issues == CountSeverity(issues, "critical")
        serious_issues  == CountSeverity(issues, "serious")
        moderate_issues == CountSeverity(issues, "moderate")
    IN  [present |-> TRUE,
         score   |-> AccessibilityScore(critical_issues, serious_issues, moderate_issues),
         issues  |-> issues,
         summary |-> [critical |-> critical_issues, serious |-> serious_issues,
                      moderate |-> moderate_issues, total |-> Len(issues)]]

AuditOutcomes == {"ok", "import_error", "error"}

\* _run_accessibility_audit: the results, or None when anything raised
_run_accessibility_audit(outcome, dom) ==
    IF outcome = "ok" THEN AuditResults(Findings(dom)) ELSE NoAudit

\* the audit, and the return of extract() in URL mode
RunAccessibilityAudit ==
    /\ uxpc = "captured"
    /\ \E outcome \in AuditOutcomes, dom \in Doms :
          /\ outcome # "ok" => dom = NoDom
          /\ uxFeatures' = [uxFeatures EXCEPT
                               !.accessibility = _run_accessibility_audit(outcome, dom),
                               !.source = uxArgs.url]
    /\ uxpc' = "returned"
    /\ UNCHANGED <<uxArgs, uxMode, fs, uxRaised>>
    /\ UNCHANGED outsideUiux

\* ---- screenshot modes ----
\* _load_screenshot: the encoded file, or the exception it re-raises
_load_screenshot(screenshot_path, files) ==
    [raised |-> files[screenshot_path] # "valid",
     data   |-> IF files[screenshot_path] = "valid" THEN screenshot_path ELSE ""]

\* plausible slip: one file that cannot be loaded fails the batch
_load_screenshots_FailFast(screenshots_dict, files) ==
    LET good == {v \in DOMAIN screenshots_dict :
                    ~_load_screenshot(screenshots_dict[v], files).raised}
    IN  [raised |-> good # DOMAIN screenshots_dict,
         loaded |-> [v \in good |-> _load_screenshot(screenshots_dict[v], files).data]]

\* _load_screenshots: a viewport whose file cannot be loaded is skipped
_load_screenshots(screenshots_dict, files) ==
    LET good == {v \in DOMAIN screenshots_dict :
                    ~_load_screenshot(screenshots_dict[v], files).raised}
    IN  [raised |-> FALSE,
         loaded |-> [v \in good |-> _load_screenshot(screenshots_dict[v], files).data]]

\* extract() in mode "screenshots"
LoadScreenshots ==
    /\ uxpc = "constructed"
    /\ uxMode = "screenshots"
    /\ \E files \in [Paths -> FileStates] :
          LET r == _load_screenshots(uxArgs.screenshots, files)
          IN  /\ fs' = files
              /\ uxRaised' = IF r.raised THEN "load_error" ELSE "none"
              /\ uxpc' = IF r.raised THEN "raised" ELSE "returned"
              /\ uxFeatures' = IF r.raised THEN uxFeatures
                               ELSE [NewUxFeatures(uxMode) EXCEPT
                                        !.screenshots = r.loaded,
                                        !.source = "provided_screenshots"]
    /\ UNCHANGED <<uxArgs, uxMode>>
    /\ UNCHANGED outsideUiux

\* extract() in mode "screenshot"
LoadScreenshot ==
    /\ uxpc = "constructed"
    /\ uxMode = "screenshot"
    /\ \E files \in [Paths -> FileStates] :
          LET r == _load_screenshot(uxArgs.screenshot, files)
          IN  /\ fs' = files
              /\ uxRaised' = IF r.raised THEN "load_error" ELSE "none"
              /\ uxpc' = IF r.raised THEN "raised" ELSE "returned"
              /\ uxFeatures' = IF r.raised THEN uxFeatures
                               ELSE [NewUxFeatures(uxMode) EXCEPT
                                        !.screenshots = [v \in {"default"} |-> r.data],
                                        !.source = "provided_screenshot"]
    /\ UNCHANGED <<uxArgs, uxMode>>
    /\ UNCHANGED outsideUiux

(***************************************************************************)
(* REST API (src/api.py): the in-memory analysis_store, the endpoints and  *)
(* the background task.  Endpoints run one at a time on the event loop;    *)
(* run_analysis_task runs on a worker thread, so each of its statements is *)
(* a step of its own that endpoints and other tasks interleave with.       *)
(* The module sets OPENAI_API_KEY from Config.get_openai_key() when it is  *)
(* imported, which raises without a key: a running application has passed  *)
(* Config.validate_required_keys().                                        *)
(***************************************************************************)
\* largest number of analysis ids generated
MaxIds == 2
\* largest number of datetime.now() calls
MaxNow == 6

Ids == 1..MaxIds

\* a value of analysis_store; timestamp 0 and present FALSE: no such key
Record(status, result, error, timestamp) ==
    [present |-> TRUE, status |-> status, result |-> result, error |-> error,
     timestamp |-> timestamp]
NoRecord == [present |-> FALSE, status |-> "", result |-> "", error |-> "", timestamp |-> 0]

Response(endpoint, code, id, status, timestamp) ==
    [endpoint |-> endpoint, code |-> code, id |-> id, status |-> status,
     timestamp |-> timestamp]
NoResponse == Response("", 0, 0, "", 0)

InitApi ==
    /\ analysis_store = [i \in Ids |-> NoRecord]
    /\ task = [i \in Ids |-> "none"]
    /\ caught = [i \in Ids |-> ""]
    /\ issued = 0
    /\ apiClock = 0
    /\ lastResponse = NoResponse

\* POST /analyze/async: store the pending record, queue the task, answer
analyze_website_async ==
    /\ issued < MaxIds
    /\ apiClock < MaxNow
    /\ LET analysis_id == issued + 1
       IN  /\ issued' = analysis_id
           /\ apiClock' = apiClock + 1
           /\ analysis_store' = [analysis_store EXCEPT
                                    ![analysis_id] = Record("pending", "", "", apiClock + 1)]
           /\ task' = [task EXCEPT ![analysis_id] = "queued"]
           /\ lastResponse' = Response("analyze_async", 200, analysis_id, "pending", 0)
    /\ UNCHANGED caught
    /\ UNCHANGED outsideApi

\* POST /analyze: the analysis runs inside the request; the record is stored
\* when it is over
analyze_website ==
    /\ issued < MaxIds
    /\ apiClock < MaxNow - 1
    /\ \E outcome \in {"ok", "raised"} :
          LET analysis_id == issued + 1
          IN  /\ issued' = analysis_id
              /\ apiClock' = IF outcome = "ok" THEN apiClock + 2 ELSE apiClock + 1
              /\ analysis_store' = [analysis_store EXCEPT ![analysis_id] =
                    IF outcome = "ok"
                    THEN Record("completed", "report", "", apiClock + 1)
                    ELSE Record("error", "", "analysis failed", apiClock + 1)]
              /\ lastResponse' =
                    IF outcome = "ok"
                    THEN Response("analyze", 200, analysis_id, "completed", apiClock + 2)
                    ELSE Response("analyze", 500, analysis_id, "", 0)
    /\ UNCHANGED <<task, caught>>
    /\ UNCHANGED outsideApi

\* GET /analyze/{analysis_id}
get_analysis_status ==
    /\ \E analysis_id \in Ids :
          lastResponse' =
              IF ~analysis_store[analysis_id].present
              THEN Response("status", 404, analysis_id, "", 0)
              ELSE Response("status", 200, analysis_id,
                            analysis_store[analysis_id].status,
                            analysis_store[analysis_id].timestamp)
    /\ UNCHANGED <<analysis_store, task, caught, issued, apiClock>>
    /\ UNCHANGED outsideApi

\* DELETE /analyze/{analysis_id}
delete_analysis ==
    /\ \E analysis_id \in Ids :
          IF ~analysis_store[analysis_id].present
          THEN /\ lastResponse' = Response("delete", 404, analysis_id, "", 0)
               /\ UNCHANGED analysis_store
          ELSE /\ analysis_store' = [analysis_store EXCEPT ![analysis_id] = NoRecord]
               /\ lastResponse' = Response("delete", 200, analysis_id, "", 0)
    /\ UNCHANGED <<task, caught, issued, apiClock>>
    /\ UNCHANGED outsideApi

\* ---- run_analysis_task(analysis_id, user_input) ----
\* positions of the task: the statement it executes next
TryStatements    == <<"queued", "try_timestamp", "try_analyze", "try_completed",
                      "try_result", "try_last_timestamp">>
ExceptStatements == <<"except_status", "except_error", "except_timestamp">>

\* the statement after position `at` in the block `statements`
After(statements, at) ==
    LET i == CHOOSE j \in 1..Len(statements) : statements[j] = at
    IN  IF i < Len(statements) THEN statements[i + 1] ELSE "done"

InBlock(statements, at) == \E j \in 1..Len(statements) : statements[j] = at

\* plausible slip: the except clause puts the record back to pending
StatusWritten_Requeue(at) ==
    IF at = "queued" THEN "processing"
    ELSE IF at = "try_completed" THEN "completed"
    ELSE "pending"

\* the status each status assignment of the task writes
StatusWritten(at) ==
    IF at = "queued" THEN "processing"
    ELSE IF at = "try_completed" THEN "completed"
    ELSE "error"

\* analysis_store[analysis_id][field] = value
Assign(analysis_id, field, value) ==
    [analysis_store EXCEPT ![analysis_id] = [@ EXCEPT ![field] = value]]

\* the field a statement assigns, and the value: the right-hand side is
\* evaluated first, so a timestamp statement reads the clock even when the
\* subscript then raises KeyError
Written(analysis_id, at) ==
    IF at \in {"queued", "try_completed", "except_status"}
    THEN <<"status", StatusWritten(at)>>
    ELSE IF at = "try_result" THEN <<"result", "report">>
    ELSE IF at = "except_error" THEN <<"error", caught[analysis_id]>>
    ELSE <<"timestamp", apiClock + 1>>

ReadsClock(at) == at \in {"try_timestamp", "try_last_timestamp", "except_timestamp"}

\* a statement of the try block
run_analysis_task_try ==
    /\ \E analysis_id \in Ids :
          LET at == task[analysis_id]
          IN  /\ InBlock(TryStatements, at)
              /\ IF at = "try_analyze"
                 THEN \* result = analyze(user_input, stream=False)
                      /\ \E outcome \in {"ok", "raised"} :
                            /\ task' = [task EXCEPT ![analysis_id] =
                                           IF outcome = "ok" THEN After(TryStatements, at)
                                           ELSE ExceptStatements[1]]
                            /\ caught' = [caught EXCEPT ![analysis_id] =
                                             IF outcome = "ok" THEN @ ELSE "analysis failed"]
                      /\ UNCHANGED <<analysis_store, apiClock>>
                 ELSE /\ ReadsClock(at) => apiClock < MaxNow
                      /\ apiClock' = IF ReadsClock(at) THEN apiClock + 1 ELSE apiClock
                      /\ IF analysis_store[analysis_id].present
                         THEN /\ analysis_store' =
                                    Assign(analysis_id, Written(analysis_id, at)[1],
                                           Written(analysis_id, at)[2])
                              /\ task' = [task EXCEPT ![analysis_id] = After(TryStatements, at)]
                              /\ UNCHANGED caught
                         ELSE \* KeyError, caught by `except Exception`
                              /\ task' = [task EXCEPT ![analysis_id] = ExceptStatements[1]]
                              /\ caught' = [caught EXCEPT ![analysis_id] = "KeyError"]
                              /\ UNCHANGED analysis_store
    /\ UNCHANGED <<issued, lastResponse>>
    /\ UNCHANGED outsideApi

\* a statement of the except clause; a KeyError raised here leaves the task
run_analysis_task_except ==
    /\ \E analysis_id \in Ids :
          LET at == task[analysis_id]
          IN  /\ InBlock(ExceptStatements, at)
              /\ ReadsClock(at) => apiClock < MaxNow
              /\ apiClock' = IF ReadsClock(at) THEN apiClock + 1 ELSE apiClock
              /\ IF analysis_store[analysis_id].present
                 THEN /\ analysis_store' =
                            Assign(analysis_id, Written(analysis_id, at)[1],
                                   Written(analysis_id, at)[2])
                      /\ task' = [task EXCEPT ![analysis_id] = After(ExceptStatements, at)]
                 ELSE /\ task' = [task EXCEPT ![analysis_id] = "crashed"]
                      /\ UNCHANGED analysis_store
    /\ UNCHANGED <<caught, issued, lastResponse>>
    /\ UNCHANGED outsideApi

(***************************************************************************)
(* Headless browsers.  Three calls launch one: _capture_screenshots and    *)
(* _run_accessibility_audit (uiux_extractor.py) and                        *)
(* LocalPerformanceAnalyzer.extract (performance_extractor.py).  Each runs *)
(* its browser inside `with sync_playwright() as p:`; the calls are taken  *)
(* one statement at a time, and any statement that talks to the browser    *)
(* may raise.  Leaving the with block stops the Playwright driver, which   *)
(* terminates the browsers launched through it.                            *)
(***************************************************************************)
\* largest number of browser-launching calls in one behaviour
MaxBrowserCalls == 2

BrowserCalls == {"capture", "audit", "local"}

\* the statements between the launch and browser.close()
AuditStatements == <<"audit_goto", "audit_images", "audit_links", "audit_inputs",
                     "audit_lang", "audit_headings">>
LocalStatements == <<"local_new_page", "local_goto", "local_evaluate", "local_resources">>

\* the first statement after the launch
Body(call) ==
    IF call = "capture" THEN "viewport"
    ELSE IF call = "audit" THEN AuditStatements[1]
    ELSE LocalStatements[1]

NoViewportOutcomes == [i \in 1..Len(Viewports) |-> "none"]

InitBrowser ==
    /\ bcall = "none"
    /\ bpc = "idle"
    /\ ncalls = 0
    /\ browsers = <<>>
    /\ vp = 1
    /\ vpOutcome = NoViewportOutcomes
    /\ attempted = <<>>
    /\ captured = {}
    /\ bresult = "none"

\* plausible slip: the driver is left running, the browsers with it
StopDriver_LeavesBrowsers(launched, call) == launched

\* __exit__ of `with sync_playwright() as p:`: the driver stops and the
\* browsers the call launched through it are gone
StopDriver(launched, call) ==
    [i \in 1..Len(launched) |->
        IF launched[i].call = call THEN [launched[i] EXCEPT !.open = FALSE] ELSE launched[i]]

\* browser.close()
Close(launched, call) ==
    [i \in 1..Len(launched) |->
        IF launched[i].call = call THEN [launched[i] EXCEPT !.open = FALSE] ELSE launched[i]]

\* one of the three calls is entered
BrowserCall ==
    /\ bpc \in {"idle", "returned"}
    /\ ncalls < MaxBrowserCalls
    /\ \E call \in BrowserCalls : bcall' = call
    /\ bpc' = "import"
    /\ ncalls' = ncalls + 1
    /\ vp' = 1
    /\ vpOutcome' = NoViewportOutcomes
    /\ attempted' = <<>>
    /\ captured' = {}
    /\ bresult' = "none"
    /\ UNCHANGED browsers
    /\ UNCHANGED outsideBrowser

\* an exception leaves the with block: __exit__, then the except clause of
\* the call, which returns {} (capture), None (audit) or the features with
\* api_error (local)
Unwind ==
    /\ browsers' = StopDriver(browsers, ncalls)
    /\ bpc' = "returned"
    /\ bresult' = "failed"
    /\ captured' = {}

\* from playwright.sync_api import sync_playwright
ImportPlaywright ==
    /\ bpc = "import"
    /\ \E outcome \in {"ok", "import_error"} :
          IF outcome = "ok"
          THEN /\ bpc' = "launch"
               /\ UNCHANGED <<bresult, captured>>
          ELSE /\ bpc' = "returned"
               /\ bresult' = "failed"
               /\ captured' = {}
    /\ UNCHANGED <<bcall, ncalls, browsers, vp, vpOutcome, attempted>>
    /\ UNCHANGED outsideBrowser

\* with sync_playwright() as p: browser = p.chromium.launch(headless=True)
LaunchBrowser ==
    /\ bpc = "launch"
    /\ \E outcome \in {"ok", "error"} :
          IF outcome = "ok"
          THEN /\ browsers' = Append(browsers, [call |-> ncalls, open |-> TRUE])
               /\ bpc' = Body(bcall)
               /\ UNCHANGED <<bresult, captured>>
          ELSE Unwind
    /\ UNCHANGED <<bcall, ncalls, vp, vpOutcome, attempted>>
    /\ UNCHANGED outsideBrowser

\* plausible slip: a viewport that failed ends the loop
AfterViewportError_Break(i) == Len(Viewports) + 1

\* except Exception: ... continue
AfterViewportError(i) == i + 1

\* one pass of `for viewport_name, viewport_size in viewports.items()`:
\* new_context, new_page, goto, screenshot, context.close inside a try
CaptureViewport ==
    /\ bcall = "capture"
    /\ bpc = "viewport"
    /\ \E outcome \in {"ok", "error"} :
          LET nextVp == IF outcome = "ok" THEN vp + 1 ELSE AfterViewportError(vp)
          IN  /\ vpOutcome' = [vpOutcome EXCEPT ![vp] = outcome]
              /\ captured' = IF outcome = "ok" THEN captured \cup {Viewports[vp]} ELSE captured
              /\ vp' = nextVp
              /\ bpc' = IF nextVp > Len(Viewports) THEN "close" ELSE "viewport"
    /\ attempted' = Append(attempted, Viewports[vp])
    /\ UNCHANGED <<bcall, ncalls, browsers, bresult>>
    /\ UNCHANGED outsideBrowser

\* a statement of the audit or of the local measurement between the launch
\* and browser.close()
BodyStatement ==
    /\ bcall \in {"audit", "local"}
    /\ LET statements == IF bcall = "audit" THEN AuditStatements ELSE LocalStatements
       IN  /\ InBlock(statements, bpc)
           /\ \E outcome \in {"ok", "error"} :
                 IF outcome = "ok"
                 THEN /\ bpc' = IF After(statements, bpc) = "done" THEN "close"
                                ELSE After(statements, bpc)
                      /\ UNCHANGED <<browsers, bresult, captured>>
                 ELSE Unwind
    /\ UNCHANGED <<bcall, ncalls, vp, vpOutcome, attempted>>
    /\ UNCHANGED outsideBrowser

\* browser.close()
CloseBrowser ==
    /\ bpc = "close"
    /\ \E outcome \in {"ok", "error"} :
          IF outcome = "ok"
          THEN /\ browsers' = Close(browsers, ncalls)
               /\ bpc' = "exit"
               /\ UNCHANGED <<bresult, captured>>
          ELSE Unwind
    /\ UNCHANGED <<bcall, ncalls, vp, vpOutcome, attempted>>
    /\ UNCHANGED outsideBrowser

\* the end of the with block, and the return
ExitWith ==
    /\ bpc = "exit"
    /\ browsers' = StopDriver(browsers, ncalls)
    /\ bpc' = "returned"
    /\ bresult' = "ok"
    /\ UNCHANGED <<bcall, ncalls, vp, vpOutcome, attempted, captured>>
    /\ UNCHANGED outsideBrowser

(***************************************************************************)
(* Specifications                                                          *)
(***************************************************************************)
Init == InitWorkflow /\ InitPerformance /\ InitHtml /\ InitUiux /\ InitApi /\ InitBrowser

Next ==
    \/ analyze
    \/ classify_input_step
    \/ \E b \in Branches : EvaluateCondition(b)
    \/ extract_seo_features_step
    \/ extract_performance_features_step
    \/ extract_uiux_features_step
    \/ \E b \in {"seo", "perf"} : AgentAnalysis(b)
    \/ analyze_uiux_with_vision_step
    \/ SummaryStep

Spec == Init /\ [][Next]_vars

PerfNext ==
    \/ analyze_performance_call
    \/ PageSpeedStage
    \/ HeaderStage
    \/ LocalStage

PerfSpec == Init /\ [][PerfNext]_vars

HtmlNext ==
    \/ HtmlContentExtractor_init
    \/ extract
    \/ extract_headings
    \/ extract_content_metrics
    \/ extract_link_features
    \/ extract_image_features
    \/ extract_structured_data_enhanced
    \/ extract_content_depth

HtmlSpec == Init /\ [][HtmlNext]_vars

UiuxNext ==
    \/ UIUXExtractor_init
    \/ CaptureScreenshots
    \/ RunAccessibilityAudit
    \/ LoadScreenshots
    \/ LoadScreenshot

UiuxSpec == Init /\ [][UiuxNext]_vars

BrowserNext ==
    \/ BrowserCall
    \/ ImportPlaywright
    \/ LaunchBrowser
    \/ CaptureViewport
    \/ BodyStatement
    \/ CloseBrowser
    \/ ExitWith

BrowserSpec == Init /\ [][BrowserNext]_vars

ApiNext ==
    \/ analyze_website_async
    \/ analyze_website
    \/ get_analysis_status
    \/ delete_analysis
    \/ run_analysis_task_try
    \/ run_analysis_task_except

ApiSpec == Init /\ [][ApiNext]_vars

(***************************************************************************)
(* Properties of the workflow (checked under Spec)                         *)
(***************************************************************************)
Terminal == {"ran", "skipped"}

\* the run is over: it returned, or an exception left it
Over == wfState \in {"done", "aborted"}

\* branches whose steps were entered
RunSet == {b \in Branches : branch[b] \in {"running", "ran"}}

\* eligibility read off the raw input alone
RawEligible(b, input_data) ==
    CASE b = "seo"  -> _check_has_url_or_html(input_data)
      [] b = "perf" -> _check_is_url(input_data)
      [] b = "uiux" -> _check_is_url(input_data) \/ _check_has_screenshot(input_data)

Rank(b) == CASE b = "seo" -> 1 [] b = "perf" -> 2 [] b = "uiux" -> 3

\* a string that starts with http:// or https://
HttpString(v) == v.ty = "str" /\ (StartsWith(v.s, Http) \/ StartsWith(v.s, Https))

\* the input is such a string, or a dict whose url field is such a string
HttpShaped(input_data) ==
    \/ input_data.ty = "str" /\ HttpString(PyStr(input_data.s))
    \/ input_data.ty = "dict" /\ HttpString(input_data.d.url)

InOrder(seq, rank(_)) ==
    \A i, j \in 1..Len(seq) : i < j => rank(seq[i]) < rank(seq[j])

RankOfContent(c) == Rank(c.tag)

\* C2: the summary step starts only after each of the three branches is
\* terminal (ran, possibly with an error output, or skipped), and branches
\* finish, and their outputs are collected, in the order SEO, Performance,
\* UI/UX.
C2_SummaryAfterAllBranches ==
    /\ summaryStarted => \A b \in Branches : branch[b] \in Terminal
    /\ InOrder(finished, Rank)
    /\ InOrder(handed, RankOfContent)

\* the summary started after three branches finished with three outputs
C2_Witness ==
    /\ summaryStarted
    /\ finished = <<"seo", "perf", "uiux">>
    /\ Len(handed) = 3

\* C3: whatever the classifier returned, and whether or not it failed, the
\* branches that run are those the raw input shape makes eligible: a branch
\* is entered only if the raw input makes it eligible and skipped only if it
\* does not.
C3_EligibilityIgnoresClassifier ==
    \A b \in Branches :
        /\ branch[b] \in {"running", "ran"} => RawEligible(b, input)
        /\ branch[b] = "skipped" => ~RawEligible(b, input)

\* the classifier failed and all three extractions ran nevertheless
C3_Witness ==
    /\ wfState = "done"
    /\ classifierCall = "raised"
    /\ classification.tag = "unknown"
    /\ RunSet = Branches

\* C4: for an input that is a string starting with http:// or https://, or a
\* dict whose url field is such a string, is_url_input and has_url_or_html
\* are both true, so neither the SEO nor the Performance branch is skipped.
C4_HttpInputsEligible ==
    (wfState # "idle" /\ HttpShaped(input)) =>
        /\ is_url_input(StepInput)
        /\ has_url_or_html(StepInput)
        /\ branch["seo"] # "skipped"
        /\ branch["perf"] # "skipped"

\* a dict whose url field is an http:// string ran SEO and Performance
C4_Witness ==
    /\ input.ty = "dict"
    /\ input.d.url.ty = "str"
    /\ StartsWith(input.d.url.s, Http)
    /\ branch["seo"] = "ran"
    /\ branch["perf"] = "ran"

OnlyKeys(d, keys) ==
    /\ \E k \in keys : HasKey(d, k)
    /\ \A k \in DOMAIN d : HasKey(d, k) => k \in keys

\* the parts of the branch table that do not mention a dict's url key
BranchTableRest ==
    /\ (input.ty = "str" /\ HttpString(PyStr(input.s))) => RunSet = Branches
    /\ (input.ty = "str" /\ ~HttpString(PyStr(input.s))) => RunSet = {"seo"}
    /\ (input.ty = "dict" /\ OnlyKeys(input.d, {"html"})) => RunSet = {"seo"}
    /\ (input.ty = "dict" /\ OnlyKeys(input.d, {"screenshot"})) => RunSet = {"uiux"}
    /\ (input.ty = "dict" /\ OnlyKeys(input.d, {"screenshots"})) => RunSet = {"uiux"}
    /\ "seo" \in RunSet <=>
          \/ input.ty = "str"
          \/ input.ty = "dict" /\ (HasKey(input.d, "url") \/ HasKey(input.d, "html"))
    /\ "uiux" \in RunSet <=>
          \/ "perf" \in RunSet
          \/ input.ty = "dict"
             /\ (HasKey(input.d, "screenshot") \/ HasKey(input.d, "screenshots"))

OutputsOfRan ==
    LET pick(b) == IF branch[b] = "ran" THEN <<stepOut[b]>> ELSE <<>>
    IN  pick("seo") \o pick("perf") \o pick("uiux")

HasTag(s) == \E i, j \in 1..Len(s) : i < j /\ s[i] = "<" /\ s[j] = ">"

\* the kind the rule-based fallback of the classification would give
FallbackKind(input_data) ==
    IF HttpShaped(input_data) THEN "url"
    ELSE IF input_data.ty = "str" /\ HasTag(input_data.s) THEN "html"
    ELSE IF input_data.ty = "dict" /\ HasKey(input_data.d, "html")
            /\ input_data.d.html.ty = "str" /\ HasTag(input_data.d.html.s) THEN "html"
    ELSE IF input_data.ty = "dict"
            /\ (HasKey(input_data.d, "screenshot") \/ HasKey(input_data.d, "screenshots"))
    THEN "screenshot"
    ELSE "unknown"

LocalRan == stageOutcome["local"] # "none"

\* the value of key k after stages 1 and 2: stage 2's for the keys it
\* produces, stage 1's otherwise
AfterHeaders(k) == IF k \in HeaderKeys THEN headers_data[k] ELSE pagespeed_data[k]

\* the three stage outputs of the worked example; stage 1 reported an error,
\* which is why stage 3 ran
ExampleStage1 == [performance_score |-> Num(80), lcp_value |-> Null,
                  api_error |-> Str("PageSpeed API request failed")]
ExampleStage2 == [response_time |-> Num(120)]
ExampleStage3 == [lcp_value |-> Num(2200), response_time |-> Num(999)]
ExampleMerged ==
    MergeLocal(Update(Update(EmptyFeatures, ExampleStage1), ExampleStage2), ExampleStage3)

\* C9: the returned dictionary starts from stage 1's fields, takes stage 2's
\* value for every key stage 2 produces, and uses a stage-3 value only for a
\* key that is missing or null after stages 1 and 2: stage 3 never overwrites
\* a non-null field.  On the worked example the merge gives
\* performance_score 80, lcp_value 2200, response_time 120.
C9_MergePrecedence ==
    /\ ppc = "done" =>
          /\ DOMAIN combined_features =
                PageSpeedKeys \cup HeaderKeys \cup (IF LocalRan THEN LocalKeys ELSE {})
          /\ \A k \in PageSpeedKeys \cup HeaderKeys :
                (AfterHeaders(k) # Null \/ ~LocalRan \/ k \notin LocalKeys) =>
                    combined_features[k] = AfterHeaders(k)
          /\ LocalRan =>
                \A k \in LocalKeys :
                    (k \notin PageSpeedKeys \cup HeaderKeys \/ AfterHeaders(k) = Null) =>
                        combined_features[k] = local_data[k]
    /\ ExampleMerged.performance_score = Num(80)
    /\ ExampleMerged.lcp_value = Num(2200)
    /\ ExampleMerged.response_time = Num(120)

\* stage 3 ran: its fcp_value filled the field stage 1 left null, and its
\* response_time did not replace the header probe's
C9_Witness ==
    /\ ppc = "done"
    /\ LocalRan
    /\ pagespeed_data["fcp_value"] = Null
    /\ local_data["fcp_value"] = Num(2200)
    /\ combined_features["fcp_value"] = Num(2200)
    /\ headers_data["response_time"] = Num(120)
    /\ local_data["response_time"] = Num(999)
    /\ combined_features["response_time"] = Num(120)

StageFailed(s) == stageOutcome[s] \notin {"none", "ok"}

\* C10: analyze_performance never raises, and the failure of any stage
\* leaves a non-null api_error in the returned dictionary.
C10_NeverRaisesErrorsRecorded ==
    /\ ~perfRaised
    /\ ppc = "done" =>
          ((\E s \in DOMAIN stageOutcome : StageFailed(s)) =>
              combined_features["api_error"] # Null)

\* C11: whenever stage 1 (the remote audit) failed, the dictionary returned
\* by analyze_performance has a non-null api_error, whatever the header probe
\* and the local stage did.
C11_ApiErrorRetained ==
    (ppc = "done" /\ StageFailed("pagespeed")) =>
        combined_features["api_error"] # Null

\* C19: for a dict input that carries both an http(s) url and a screenshots
\* map, the three branches run and the UI/UX extraction works on the
\* screenshots supplied in the input (the extractor is in "screenshots"
\* mode).
C19_CustomScreenshotsAnalysed ==
    (/\ wfState = "done"
     /\ input.ty = "dict"
     /\ HttpString(input.d.url)
     /\ input.d.screenshots = PyDict) =>
        /\ RunSet = Branches
        /\ stepOut["uiux"].kind = "features" => stepOut["uiux"].text = "screenshots"

(***************************************************************************)
(* Properties of HtmlContentExtractor (checked under HtmlSpec)             *)
(***************************************************************************)
\* the markup the extractor was given or fetched
TheMarkup == IF fetch = "ok" THEN page.web ELSE page.html

Returned == hpc = "returned" /\ extractResult = "features"

HasBlock(scripts, b) == \E i \in 1..Len(scripts) : scripts[i] = b

\* C12: for a markup with a JSON-LD block {"@type":"FAQPage"} and a second,
\* malformed block, extract() does not fail and returns has_json_ld = true
\* and has_faq_schema = true.
C12_JsonLdSurvivesBadBlock ==
    (/\ Returned
     /\ HasBlock(TheMarkup.d.scripts, Block("ok", <<"FAQPage">>))
     /\ HasBlock(TheMarkup.d.scripts, Block("decode_error", <<>>))) =>
        /\ ~htmlRaised
        /\ features.has_json_ld
        /\ features.has_faq_schema

\* the href is neither an anchor nor a script pseudo-link
Counted(href) == href.s[1] # "#" /\ href.scheme # "javascript"

\* number of links of the markup whose resolved host satisfies P
LinksWhere(P(_)) ==
    Cardinality({i \in 1..Len(TheMarkup.d.links) :
                    /\ Counted(TheMarkup.d.links[i])
                    /\ P(ResolvedNetloc(page.url, TheMarkup.d.links[i]))})

SameHost(h)  == h = page.url.netloc
OtherHost(h) == h # page.url.netloc /\ h # ""

\* C13: in every feature set total_links = internal_links + external_links.
\* With a page URL, the first extraction counts as internal exactly the
\* links whose resolved host is the page's host and as external those with
\* another host; hrefs starting with '#' or 'javascript:' are in neither.
C13_TotalLinksIsSum ==
    /\ features.total_links = features.internal_links + features.external_links
    /\ (Returned /\ extractCalls = 1 /\ page.url.given) =>
          /\ features.internal_links = LinksWhere(SameHost)
          /\ features.external_links = LinksWhere(OtherHost)
    /\ (Returned /\ ~page.url.given) => features.total_links = 0

\* an anchor and a relative link: one internal link, none external
C13_Witness ==
    /\ Returned
    /\ extractCalls = 1
    /\ page.url.given
    /\ Len(TheMarkup.d.links) = 2
    /\ \E i \in 1..2 : TheMarkup.d.links[i].s = <<"#">>
    /\ features.internal_links = 1
    /\ features.external_links = 0
    /\ features.total_links = 1

\* the tier a value reaches: the contribution of the highest cut point that
\* the value attains, 0 below all of them
Tier(value, cuts) ==
    LET reached == {c \in cuts : value >= c[1]}
    IN  IF reached = {} THEN 0
        ELSE (CHOOSE c \in reached : \A e \in reached : c[1] >= e[1])[2]

\* the tier contributions listed for the content-depth score
TierSum(f) ==
    Tier(f.word_count, {<<2000, 30>>, <<1000, 20>>, <<500, 10>>, <<300, 5>>})
    + Tier(f.paragraph_count, {<<10, 10>>, <<5, 5>>})
    + Tier(f.average_paragraph_length, {<<300, 10>>, <<150, 5>>})
    + (IF f.has_lists THEN 10 ELSE 0)
    + (IF f.has_tables THEN 10 ELSE 0)
    + (IF f.h1_count = 1 THEN 5 ELSE 0)
    + Tier(f.h2_count, {<<3, 5>>})
    + Tier(f.h3_count, {<<2, 5>>})
    + Tier(f.total_images, {<<5, 10>>, <<2, 5>>})
    + (IF f.images_with_alt > 0 /\ 5 * f.images_with_alt >= 4 * f.total_images
       THEN 5 ELSE 0)

\* C14: in every returned feature set content_depth_score is the sum of the
\* tier contributions, clamped to 100, and lies in 0..100.
C14_DepthScoreIsClampedSum ==
    /\ features.content_depth_score \in 0..100
    /\ Returned =>
          features.content_depth_score =
              (IF TierSum(features) > 100 THEN 100 ELSE TierSum(features))

\* every tier at its top: the score is 100; the cut point 2000 is attained
C14_Witness ==
    /\ Returned
    /\ features.word_count = 2000
    /\ features.content_depth_score = 100

\* the alt attribute is present and has a character that is not a blank
NonBlank(alt) == alt.ty = "str" /\ \E i \in 1..Len(alt.s) : alt.s[i] # " "

\* C15: after extract() on a markup, images_with_alt is the number of img
\* elements whose alt is non-empty after trimming, every other img is counted
\* in images_without_alt, and the two add up to total_images; a page with one
\* h1 and one img without alt gives h1_count 1, total_images 1,
\* images_without_alt 1, images_with_alt 0.
C15_AltCountsPartition ==
    (Returned /\ extractCalls = 1) =>
        LET imgs == TheMarkup.d.imgs
        IN  /\ features.total_images = Len(imgs)
            /\ features.images_with_alt =
                   Cardinality({i \in 1..Len(imgs) : NonBlank(imgs[i])})
            /\ features.images_with_alt + features.images_without_alt
                   = features.total_images
            /\ (TheMarkup.d.h1 = 1 /\ imgs = <<Absent>>) =>
                   /\ features.h1_count = 1
                   /\ features.total_images = 1
                   /\ features.images_without_alt = 1
                   /\ features.images_with_alt = 0

\* the page of the example: one h1 and one img without alt
C15_Witness ==
    /\ Returned
    /\ extractCalls = 1
    /\ TheMarkup.d.h1 = 1
    /\ TheMarkup.d.imgs = <<Absent>>
    /\ features.h1_count = 1
    /\ features.total_images = 1
    /\ features.images_without_alt = 1
    /\ features.images_with_alt = 0

\* C18: when the fetch of the url fails (network error, timeout, HTTP error
\* status) neither the constructor nor extract() raises, and extract()
\* returns the dictionary that carries an error field.
C18_FetchFailureIsAnErrorField ==
    fetch \in RequestExceptions =>
        /\ ~htmlRaised
        /\ hpc # "failed"
        /\ ~soup.present
        /\ extractCalls > 0 => (hpc = "returned" /\ extractResult = "error")

\* the fetch timed out and extract() returned the error dictionary
C18_Witness ==
    /\ fetch = "timeout"
    /\ extractCalls = 1
    /\ extractResult = "error"
    /\ ~htmlRaised

(***************************************************************************)
(* Properties of UIUXExtractor (checked under UiuxSpec)                    *)
(***************************************************************************)
\* C16: the accessibility score is max(0, 100 - 15*critical - 10*serious
\* - 5*moderate) over the numbers of critical, serious and moderate issues:
\* it does not increase when one of the numbers increases and is never below
\* 0; the score of every audit is that value for the audit's issues.
\* (The arithmetic does not depend on the state: it is evaluated once, in the
\* state before construction.)
C16_ScoreFormula ==
    /\ uxpc = "new" =>
          \A c, s, m \in 0..MaxIssues :
              LET raw == 100 - 15 * c - 10 * s - 5 * m
              IN  /\ AccessibilityScore(c, s, m) = (IF raw > 0 THEN raw ELSE 0)
                  /\ AccessibilityScore(c, s, m) >= 0
                  /\ AccessibilityScore(c + 1, s, m) <= AccessibilityScore(c, s, m)
                  /\ AccessibilityScore(c, s + 1, m) <= AccessibilityScore(c, s, m)
                  /\ AccessibilityScore(c, s, m + 1) <= AccessibilityScore(c, s, m)
    /\ uxFeatures.accessibility.present =>
          LET a   == uxFeatures.accessibility
              n(sev) == Cardinality({i \in 1..Len(a.issues) : a.issues[i].severity = sev})
              raw == 100 - 15 * n("critical") - 10 * n("serious") - 5 * n("moderate")
          IN  /\ a.score = (IF raw > 0 THEN raw ELSE 0)
              /\ a.score \in 0..100

\* an audit with one critical, three serious and two moderate issues: 45
C16_Witness ==
    /\ uxpc = "returned"
    /\ uxFeatures.accessibility.present
    /\ uxFeatures.accessibility.summary =
          [critical |-> 1, serious |-> 3, moderate |-> 2, total |-> 6]
    /\ uxFeatures.accessibility.score = 45

\* viewports of the provided dict whose file is there and readable
Loadable == {v \in DOMAIN uxArgs.screenshots : fs[uxArgs.screenshots[v]] = "valid"}

\* C17: in single-screenshot mode extract() raises when the file is missing
\* (or cannot be read), and the UI/UX step returns an error output for an
\* extractor that raised; in multi-screenshot mode extract() never raises and
\* its screenshots map holds exactly the viewports whose files loaded.
C17_SingleFailsBatchSkips ==
    /\ (uxMode = "screenshot" /\ uxpc # "constructed") =>
          /\ uxpc = "raised" <=> fs[uxArgs.screenshot] # "valid"
          /\ uxpc = "raised" => uxRaised = "load_error"
          /\ uxpc = "returned" => DOMAIN uxFeatures.screenshots = {"default"}
    /\ extract_uiux_features_result(
           DictInput([NoDict EXCEPT !.screenshot = PyStr(<<"a">>)]), "raised")
          = ErrExtract("uiux")
    /\ (uxMode = "screenshots" /\ uxpc # "constructed") =>
          /\ uxpc = "returned"
          /\ uxRaised = "none"
          /\ DOMAIN uxFeatures.screenshots = Loadable
          /\ \A v \in Loadable : uxFeatures.screenshots[v] = uxArgs.screenshots[v]

\* one unreadable and one valid path: exactly the valid viewport is returned
C17_Witness ==
    /\ uxMode = "screenshots"
    /\ uxpc = "returned"
    /\ DOMAIN uxArgs.screenshots = {"desktop", "mobile"}
    /\ fs[uxArgs.screenshots["desktop"]] = "unreadable"
    /\ fs[uxArgs.screenshots["mobile"]] = "valid"
    /\ DOMAIN uxFeatures.screenshots = {"mobile"}

(***************************************************************************)
(* Properties of the REST API (checked under ApiSpec)                      *)
(***************************************************************************)
StatusValues == {"pending", "processing", "completed", "error"}

\* the moves a stored record's status may make
StatusMoves == {<<"pending", "processing">>, <<"processing", "completed">>,
                <<"processing", "error">>}

\* what is true of every state: answers of the async endpoint and of the
\* polling endpoint, and the stored records
PollAnswers ==
    /\ lastResponse.endpoint = "analyze_async" =>
          /\ lastResponse.code = 200
          /\ lastResponse.status = "pending"
    /\ (lastResponse.endpoint = "status" /\ lastResponse.code = 200) =>
          /\ lastResponse.status \in StatusValues
          /\ lastResponse.timestamp > 0
    /\ \A id \in Ids :
          /\ analysis_store[id].present =>
                /\ analysis_store[id].status \in StatusValues
                /\ analysis_store[id].timestamp > 0
          /\ (task[id] = "queued" /\ analysis_store[id].present) =>
                analysis_store[id].status = "pending"

\* what is true of every step: the async endpoint stores a pending record
\* whose task has not started, and a stored record's status stays or makes
\* one of the three moves
StatusSteps ==
    /\ (lastResponse' # lastResponse /\ lastResponse'.endpoint = "analyze_async") =>
          /\ analysis_store'[lastResponse'.id].present
          /\ analysis_store'[lastResponse'.id].status = "pending"
          /\ task'[lastResponse'.id] = "queued"
    /\ \A id \in Ids :
          (analysis_store[id].present /\ analysis_store'[id].present) =>
              \/ analysis_store'[id].status = analysis_store[id].status
              \/ <<analysis_store[id].status, analysis_store'[id].status>> \in StatusMoves

\* C20: the async endpoint stores and returns an identifier with status
\* pending before the analysis starts; polling a stored identifier returns a
\* status in {pending, processing, completed, error} with a timestamp; a
\* record's status only moves pending -> processing -> (completed | error)
\* and never leaves completed or error.
C20_StatusLifecycle == []PollAnswers /\ [][StatusSteps]_vars

\* a record polled while processing has since become completed
C20_Witness ==
    /\ lastResponse.endpoint = "status"
    /\ lastResponse.status = "processing"
    /\ analysis_store[lastResponse.id].present
    /\ analysis_store[lastResponse.id].status = "completed"
    /\ task[lastResponse.id] = "done"

(***************************************************************************)
(* C21 .. C24: the stages of analyze_performance                           *)
(***************************************************************************)
IsPrefix(s, t) == Len(s) <= Len(t) /\ \A i \in 1..Len(s) : s[i] = t[i]

\* stage 1 reported an error: its dictionary carries a non-null api_error
Stage1Error == pagespeed_data["api_error"] # Null

\* C21: the header probe runs exactly once, after the remote audit whatever
\* its outcome; the local measurement runs iff stage 1 reported an error and
\* use_fallback is true, and then only after the header probe.
C21_StageSchedule ==
    /\ IsPrefix(stageOrder, <<"pagespeed", "headers", "local">>)
    /\ ppc \in {"stage3", "done"} => Len(stageOrder) >= 2
    /\ ppc = "stage3" => Stage1Error /\ use_fallback
    /\ ppc = "done" =>
          (Len(stageOrder) = 3 <=> (Stage1Error /\ use_fallback))

\* stage 1 failed, the header probe failed as well, stage 3 ran last
C21_Witness ==
    /\ ppc = "done"
    /\ stageOrder = <<"pagespeed", "headers", "local">>
    /\ stageOutcome["pagespeed"] = "exception"
    /\ stageOutcome["headers"] = "exception"

\* C22: in the returned feature set fallback_used is set whenever the local
\* measurement stage was invoked, whether or not it filled any field.
C22_FallbackUsedWhenLocalRan ==
    (ppc = "done" /\ LocalRan) => combined_features["fallback_used"] = Bool(TRUE)

\* the stages that set analyzed_at: a stage does so at the end of its try
\* block, that is, when it succeeded
Stamped == {i \in 1..Len(stageOrder) : stageOutcome[stageOrder[i]] = "ok"}

LastStamped == stageOrder[CHOOSE i \in Stamped : \A j \in Stamped : j <= i]

\* C23: in the returned feature set analysis_source names the stage that most
\* recently set analyzed_at among the stages that ran, for every combination
\* of stage successes and failures.
C23_SourceIsLastStamped ==
    (ppc = "done" /\ Stamped # {}) =>
        combined_features["analysis_source"] = Str(LastStamped)

\* C24: in the remote audit stage a category score is null only when the
\* service returned no score for the category; a score returned as 0 is
\* reported as 0, and a returned score s in 0..1 is reported as s scaled by
\* 100 (scores are held in hundredths, so scaling leaves the number as is).
C24_ScoreNullOnlyWhenAbsent ==
    stageOutcome["pagespeed"] = "ok" =>
        \A c \in Categories :
            /\ pagespeed_data[ScoreKey(c)] = Null <=> categories[c] = Null
            /\ categories[c] # Null => pagespeed_data[ScoreKey(c)] = categories[c]

(***************************************************************************)
(* C25, C26: screenshot capture and headless browsers (BrowserSpec)        *)
(***************************************************************************)
\* the viewports with the given outcome
ViewportsWith(outcome) ==
    {Viewports[i] : i \in {j \in 1..Len(Viewports) : vpOutcome[j] = outcome}}

\* C25: in URL mode a capture failure at one of the three viewports only
\* omits that viewport: the remaining viewports are still attempted in order
\* (once the browser is launched, the loop reaches browser.close() only after
\* desktop, tablet and mobile were each attempted once), and, unless the
\* launch or browser.close() itself fails, the result contains exactly the
\* viewports whose capture succeeded.
C25_ViewportFailureOmitsOnlyThatViewport ==
    bcall = "capture" =>
        /\ IsPrefix(attempted, Viewports)
        /\ bpc \in {"close", "exit"} => attempted = Viewports
        /\ captured \subseteq ViewportsWith("ok")
        /\ (bpc = "returned" /\ bresult = "ok") =>
              /\ attempted = Viewports
              /\ captured = ViewportsWith("ok")

\* the capture failed at desktop and at mobile; tablet alone is returned
C25_Witness ==
    /\ bcall = "capture"
    /\ bpc = "returned"
    /\ bresult = "ok"
    /\ vpOutcome = <<"error", "ok", "error">>
    /\ attempted = Viewports
    /\ captured = {"tablet"}

\* C26: every call that launches a headless browser releases it on every
\* exit path, including when navigation, evaluation or capture raises, and
\* no browser is shared between two calls: a browser is open only during the
\* call that launched it, and every call launches its own.
C26_BrowserReleasedOnEveryExit ==
    /\ bpc \in {"idle", "returned"} => \A i \in 1..Len(browsers) : ~browsers[i].open
    /\ \A i \in 1..Len(browsers) : browsers[i].open => browsers[i].call = ncalls
    /\ \A i, j \in 1..Len(browsers) : browsers[i].call = browsers[j].call => i = j

\* the second call launched a browser and left through an exception
C26_Witness ==
    /\ bpc = "returned"
    /\ bresult = "failed"
    /\ ncalls = 2
    /\ Len(browsers) = 2
    /\ browsers[2].call = 2
    /\ bcall \in {"audit", "local"}

\* C27: for every interleaving of delete_analysis with run_analysis_task on
\* the same analysis id, the task terminates without an unhandled exception
\* and never leaves a record of that id in status pending or processing.
C27_TaskSurvivesDeletion ==
    \A analysis_id \in Ids :
        /\ task[analysis_id] # "crashed"
        /\ task[analysis_id] = "done" =>
              \/ ~analysis_store[analysis_id].present
              \/ analysis_store[analysis_id].status \notin {"pending", "processing"}

\* C28: extract() is idempotent: every call on the same extractor returns the
\* feature set the first call returned; in particular images_with_alt +
\* images_without_alt = total_images and the link counts are unchanged after
\* every call.
C28_ExtractIdempotent ==
    (Returned /\ extractCalls >= 1) =>
        /\ features = firstReturn
        /\ features.images_with_alt + features.images_without_alt = features.total_images
        /\ features.internal_links = firstReturn.internal_links
        /\ features.external_links = firstReturn.external_links
        /\ features.total_links = firstReturn.total_links

(***************************************************************************)
(* C29: the findings of the accessibility audit (UiuxSpec)                 *)
(***************************************************************************)
\* the findings with every count field set to 1
CountsErased(issues) == [i \in 1..Len(issues) |-> [issues[i] EXCEPT !.count = 1]]

\* C29: the audit produces at most one critical, three serious and two
\* moderate findings, its score depends on the number of findings per
\* severity and not on their count fields, and every score it returns is at
\* least 45.  (The heading check is a function of the heading levels alone: it
\* is evaluated over the level sequences once, in the state before
\* construction.)
C29_FindingLimits ==
    /\ uxFeatures.accessibility.present =>
          LET audit == uxFeatures.accessibility
          IN  /\ CountSeverity(audit.issues, "critical") <= 1
              /\ CountSeverity(audit.issues, "serious") <= 3
              /\ CountSeverity(audit.issues, "moderate") <= 2
              /\ audit.score = 100 - 15 * audit.summary.critical
                                   - 10 * audit.summary.serious
                                   - 5 * audit.summary.moderate
              /\ audit.score = AuditResults(CountsErased(audit.issues)).score
              /\ audit.score >= 45
    /\ uxpc = "new" =>
          \A levels \in SeqsUpTo(1..4, MaxHeadings) \cup SeqsUpTo(HeadingLevels, MaxHeadings) :
              LET reported == HeadingIssues(levels)
                  Has(text) == \E i \in 1..Len(reported) : reported[i] = text
              IN  /\ ~(Has("No H1 heading found") /\ Has("Multiple H1 headings"))
                  /\ Cardinality({i \in 1..Len(reported) :
                                     reported[i] = "Skipped heading level"}) <= 1

\* the worst audit: every check found something, two elements each, two H1
\* headings and a skipped level; the score is 45
C29_Witness ==
    /\ uxpc = "returned"
    /\ uxFeatures.accessibility.present
    /\ uxFeatures.accessibility.summary =
          [critical |-> 1, serious |-> 3, moderate |-> 2, total |-> 6]
    /\ \E i \in 1..Len(uxFeatures.accessibility.issues) :
          uxFeatures.accessibility.issues[i].count = 2
    /\ uxFeatures.accessibility.score = 45

(***************************************************************************)
(* C30: the announced analysis mode (Spec)                                 *)
(***************************************************************************)
\* the branches a mode names
BranchesNamed(announced) ==
    CASE announced = "SEO + Performance + UI/UX" -> {"seo", "perf", "uiux"}
      [] announced = "SEO Only"                  -> {"seo"}
      [] announced = "UI/UX Only"                -> {"uiux"}
      [] OTHER                                   -> {}

\* C30: for every input, the mode analyze announces names exactly the set of
\* branches whose workflow conditions are true for that input.
C30_ModeNamesTheBranches ==
    wfState # "idle" =>
        BranchesNamed(mode) = {b \in Branches : Evaluator(b, StepInput)}

====
